---- MODULE Spec2Model ----
(***************************************************************************)
(* Model of the region allocators of maskerad_stack_allocator.             *)
(*                                                                         *)
(* A MemoryChunk is a byte buffer of fixed capacity with a fill cursor.    *)
(* The drop chunk of a StackAllocator holds records                        *)
(*     <packed type-description word> <padding> <object> <padding>         *)
(* and the copy chunk holds bare objects.  Offsets are byte offsets from   *)
(* the start of the chunk's storage.  The closure that builds the object   *)
(* is run by the allocator between the reservation of the record and the   *)
(* write of the "initialized" bit, so an allocation is a reservation step  *)
(* followed by the return (or the panic) of the closure.                   *)
(***************************************************************************)
EXTENDS Integers, Sequences, FiniteSets, TLC

VARIABLES stack, pending, markers, markers_copy, recs, last, alive, call,
          copy_stack, buffered, ended, pool, ended_chunk

vars == <<stack, pending, markers, markers_copy, recs, last, alive, call,
          copy_stack, buffered, ended, pool, ended_chunk>>

\* The allocators of the other files, which the StackAllocator never touches.
others == <<buffered, ended, pool, ended_chunk>>

(***************************************************************************)
(* Bounds of the model.                                                    *)
(***************************************************************************)
\* Largest capacity, in bytes, of a drop chunk (with an empty copy chunk).
MaxCapacity == 46
\* Largest capacity, in bytes, of a copy chunk (with an empty drop chunk).
MaxCapacityCopy == 16
\* Capacities, in bytes, of the allocator in which both chunks have room.
MixCapacity == 24
MixCapacityCopy == 10
\* Capacity, in bytes, of the chunk of a StackAllocatorCopy.
MaxCapacityStackCopy == 25
\* Largest address of a TypeDescription handed to the bit packing on its own.
MaxPointer == 64
\* Capacities, in bytes, of the two chunks of each buffer of a
\* DoubleBufferedAllocator.
BufferedCapacity == 25
BufferedCapacityCopy == 3
\* Capacities, in bytes, handed to DoubleEndedStackAllocator::with_capacity.
EndedCapacity == 50
EndedCapacityCopy == 6
\* Largest capacity, in bytes, handed to DoubleEndedStackAllocator::with_capacity
\* when the capacities of the sides are looked at.
MaxRequest == 7
\* Size, in bytes, of a DoubleEndedMemoryChunk.
ChunkSize == 64
\* Number of items of a PoolAllocator (the pools of the tests of
\* pool_allocator.rs have 2), size in bytes of an item in which a
\* SharedUnique<Monster> fits, and number of live SharedPtr, and of live
\* WeakPtr, from which the caller makes no further one.
NbItem == 2
ItemSize == 49
MaxHandles == 2
\* Capacities, in bytes, of the allocators in which types of every size and
\* alignment are allocated, and largest size of such a type, in units of its
\* alignment.
SizedCapacity == 41
SizedCapacityCopy == 5
MaxUnits == 1
\* Largest number of closures running inside each other.
MaxDepth == 2
\* Largest base handed to round_up on its own.
MaxBase == 40

(***************************************************************************)
(* Program constants (64-bit target).                                      *)
(***************************************************************************)
\* mem::size_of::<*const utils::TypeDescription>()
WordSize == 8
\* mem::align_of::<*const utils::TypeDescription>()
WordAlign == 8

(***************************************************************************)
(* The types the caller allocates: size_of, align_of and needs_drop are    *)
(* compiler intrinsics, so a type is its triple.                           *)
(***************************************************************************)
DropTypes ==
    { [name |-> "Zst",     size |-> 0, align |-> 1, needs_drop |-> TRUE],
      [name |-> "Monster", size |-> 4, align |-> 4, needs_drop |-> TRUE],
      [name |-> "Boxed",   size |-> 8, align |-> 8, needs_drop |-> TRUE] }

\* SharedUnique<Monster> {strong: Cell<usize>, weak: Cell<usize>, value: Monster},
\* the type alloc_shared writes for a Monster.
SharedUniqueMonster ==
    [name |-> "SharedUnique<Monster>", size |-> 24, align |-> 8, needs_drop |-> TRUE]

CopyTypes ==
    { [name |-> "u8",  size |-> 1, align |-> 1, needs_drop |-> FALSE],
      [name |-> "u32", size |-> 4, align |-> 4, needs_drop |-> FALSE],
      [name |-> "u64", size |-> 8, align |-> 8, needs_drop |-> FALSE] }

Types == DropTypes \cup CopyTypes

(***************************************************************************)
(* utils.rs                                                                *)
(***************************************************************************)
RECURSIVE BitAnd(_, _)
BitAnd(a, b) ==
    IF a = 0 \/ b = 0 THEN 0
    ELSE (IF a % 2 = 1 /\ b % 2 = 1 THEN 1 ELSE 0) + 2 * BitAnd(a \div 2, b \div 2)

RECURSIVE BitOr(_, _)
BitOr(a, b) ==
    IF a = 0 THEN b
    ELSE IF b = 0 THEN a
    ELSE (IF a % 2 = 1 \/ b % 2 = 1 THEN 1 ELSE 0) + 2 * BitOr(a \div 2, b \div 2)

\* A variant that forgets the adjustment.
round_up_identity(base, align) == base

\* A variant that adds one alignment too many.
round_up_overshoot(base, align) == base + 2 * align - BitAnd(base, align - 1)

\* utils::round_up: base + (align - (base & (align - 1))).
round_up(base, align) ==
    LET misalignment == BitAnd(base, align - 1)
        adjustment   == align - misalignment
    IN  base + adjustment

\* The vtable address of each droppable type (the low bit of a vtable address is 0).
get_type_description(T) ==
    CASE T.name = "Sized"   -> 1024 + 64 * T.size + 2 * T.align
      [] T.name = "Zst"     -> 16
      [] T.name = "Monster" -> 32
      [] T.name = "Boxed"   -> 48
      [] T.name = "SharedUnique<Monster>" -> 80

\* The TypeDescription {drop_glue, size, alignment} found at a vtable address.
TypeDescription(p) ==
    CASE p >= 1024 -> [drop_glue |-> "Sized", size |-> (p - 1024) \div 64,
                       alignment |-> ((p - 1024) % 64) \div 2]
      [] p = 16 -> [drop_glue |-> "Zst",     size |-> 0, alignment |-> 1]
      [] p = 32 -> [drop_glue |-> "Monster", size |-> 4, alignment |-> 4]
      [] p = 48 -> [drop_glue |-> "Boxed",   size |-> 8, alignment |-> 8]
      [] p = 80 -> [drop_glue |-> "SharedUnique<Monster>", size |-> 24, alignment |-> 8]

\* p as usize | (is_done as usize)
bitpack_type_description_ptr(p, is_done) ==
    BitOr(p, IF is_done THEN 1 ELSE 0)

\* A decoding that leaves the low bit in the pointer.
un_bitpack_type_description_ptr_keeping_low_bit(p) ==
    [type_description |-> p, is_done |-> BitAnd(p, 1) = 1]

\* ((p & !1) as *const TypeDescription, p & 1 == 1)
un_bitpack_type_description_ptr(p) ==
    [type_description |-> p - BitAnd(p, 1), is_done |-> BitAnd(p, 1) = 1]

(***************************************************************************)
(* memory_chunk.rs                                                         *)
(*                                                                         *)
(* A chunk is [cap, fill, words]: words maps the offsets at which a packed *)
(* word has been written to that word; storage is never zeroed, so words   *)
(* written above fill stay where they are.                                 *)
(***************************************************************************)
MemoryChunk_new(size) == [cap |-> size, fill |-> 0, words |-> <<>>]

set_fill(chunk, first_unused_byte) == [chunk EXCEPT !.fill = first_unused_byte]

write_word(chunk, offset, word) ==
    [chunk EXCEPT !.words =
        [o \in (DOMAIN chunk.words) \cup {offset} |->
            IF o = offset THEN word ELSE chunk.words[o]]]

\* The walk of destroy_to_marker from index: the record starts it visits, the
\* drop_glue calls it makes (object offset and type description) in order, and
\* whether it read a word that was never written.
RECURSIVE destroy_walk(_, _, _)
destroy_walk(chunk, index, acc) ==
    IF ~(index < chunk.fill) THEN [acc EXCEPT !.stop = index]
    ELSE IF index \notin DOMAIN chunk.words
         THEN [acc EXCEPT !.uninit_read = TRUE, !.stop = index]
    ELSE
        LET unpacked == un_bitpack_type_description_ptr(chunk.words[index])
            type_description == unpacked.type_description
            is_done == unpacked.is_done
            size == TypeDescription(type_description).size
            alignment == TypeDescription(type_description).alignment
            after_type_description == index + WordSize
            start == round_up(after_type_description, alignment)
            next == round_up(start + size, WordAlign)
            glue == [at |-> start, type_description |-> type_description]
        IN  destroy_walk(chunk, next,
                [acc EXCEPT !.visited = Append(@, index),
                            !.drops = IF is_done THEN Append(@, glue) ELSE @])

\* A walk that starts at the bottom of the chunk whatever the marker.
destroy_to_marker_from_bottom(chunk, marker) ==
    destroy_walk(chunk, 0,
        [visited |-> <<>>, drops |-> <<>>, uninit_read |-> FALSE, stop |-> 0])

\* A walk that calls drop_glue whatever the "initialized" bit says.
RECURSIVE destroy_walk_ignoring_is_done(_, _, _)
destroy_walk_ignoring_is_done(chunk, index, acc) ==
    IF ~(index < chunk.fill) THEN [acc EXCEPT !.stop = index]
    ELSE IF index \notin DOMAIN chunk.words
         THEN [acc EXCEPT !.uninit_read = TRUE, !.stop = index]
    ELSE
        LET unpacked == un_bitpack_type_description_ptr(chunk.words[index])
            type_description == unpacked.type_description
            size == TypeDescription(type_description).size
            alignment == TypeDescription(type_description).alignment
            start == round_up(index + WordSize, alignment)
            next == round_up(start + size, WordAlign)
            glue == [at |-> start, type_description |-> type_description]
        IN  destroy_walk_ignoring_is_done(chunk, next,
                [acc EXCEPT !.visited = Append(@, index),
                            !.drops = Append(@, glue)])

destroy_to_marker_ignoring_is_done(chunk, marker) ==
    destroy_walk_ignoring_is_done(chunk, marker,
        [visited |-> <<>>, drops |-> <<>>, uninit_read |-> FALSE, stop |-> marker])

\* A walk that visits the records from the top of the stack down.
destroy_to_marker_reversed(chunk, marker) ==
    LET w == destroy_walk(chunk, marker,
                [visited |-> <<>>, drops |-> <<>>, uninit_read |-> FALSE, stop |-> marker])
        n == Len(w.drops)
    IN  [w EXCEPT !.drops = [i \in 1..n |-> w.drops[n + 1 - i]]]

\* MemoryChunk::destroy_to_marker
destroy_to_marker(chunk, marker) ==
    destroy_walk(chunk, marker,
        [visited |-> <<>>, drops |-> <<>>, uninit_read |-> FALSE, stop |-> marker])

\* A walk of the whole chunk that visits nothing.
destroy_nothing(chunk) == destroy_to_marker(chunk, chunk.fill)

\* MemoryChunk::destroy
destroy(chunk) == destroy_to_marker(chunk, 0)

\* A construction that hands each capacity to the other chunk.
StackAllocator_with_capacity_swapped(capacity, capacity_copy) ==
    [storage      |-> MemoryChunk_new(capacity_copy),
     storage_copy |-> MemoryChunk_new(capacity)]

(***************************************************************************)
(* stacks/stack_allocator.rs                                               *)
(*                                                                         *)
(* A StackAllocator is [storage, storage_copy], two chunks.                *)
(***************************************************************************)
StackAllocator_with_capacity(capacity, capacity_copy) ==
    [storage      |-> MemoryChunk_new(capacity),
     storage_copy |-> MemoryChunk_new(capacity_copy)]

\* Offsets whose end is not rounded up to the alignment of the packed word.
non_copy_layout_no_padding(fill, n_bytes, align) ==
    LET start == round_up(fill + WordSize, align)
    IN  [type_description_start |-> fill, start |-> start, end |-> start + n_bytes]

\* Offsets that leave no room for the packed word in front of the object.
non_copy_layout_object_at_word(fill, n_bytes, align) ==
    LET start == round_up(fill, align)
    IN  [type_description_start |-> fill, start |-> start,
         end |-> round_up(start + n_bytes, WordAlign)]

\* The offsets alloc_non_copy_inner computes from the fill of the drop chunk.
non_copy_layout(fill, n_bytes, align) ==
    LET type_description_start == fill
        after_type_description == fill + WordSize
        start == round_up(after_type_description, align)
        end   == round_up(start + n_bytes, WordAlign)
    IN  [type_description_start |-> type_description_start,
         start |-> start, end |-> end]

\* The offsets alloc_copy_inner computes from the fill of the copy chunk.
copy_layout(fill, n_bytes, align) ==
    LET start == round_up(fill, align)
        end   == start + n_bytes
    IN  [start |-> start, end |-> end]

\* A capacity test that lets the allocation end exactly at the capacity.
out_of_memory_strict(end, capacity) == end > capacity

\* A capacity test that is never true.
out_of_memory_never(end, capacity) == FALSE

\* if end >= storage.capacity() { return Err(OutOfMemoryError) }
out_of_memory(end, capacity) == end >= capacity

\* A reservation that leaves the fill where it was.
alloc_non_copy_inner_no_set_fill(sa, n_bytes, align) ==
    LET l == non_copy_layout(sa.storage.fill, n_bytes, align)
    IN  IF out_of_memory(l.end, sa.storage.cap)
        THEN [ok |-> FALSE, sa |-> sa, type_description_start |-> 0, start |-> 0, end |-> l.end]
        ELSE [ok |-> TRUE, sa |-> sa,
              type_description_start |-> l.type_description_start,
              start |-> l.start, end |-> l.end]

\* A reservation that moves the fill of the other chunk.
alloc_non_copy_inner_wrong_chunk(sa, n_bytes, align) ==
    LET l == non_copy_layout(sa.storage.fill, n_bytes, align)
    IN  IF out_of_memory(l.end, sa.storage.cap)
        THEN [ok |-> FALSE, sa |-> sa, type_description_start |-> 0, start |-> 0, end |-> l.end]
        ELSE [ok |-> TRUE,
              sa |-> [sa EXCEPT !.storage_copy = set_fill(@, l.end)],
              type_description_start |-> l.type_description_start,
              start |-> l.start, end |-> l.end]

\* A reservation that moves the fill before the capacity test.
alloc_non_copy_inner_set_fill_first(sa, n_bytes, align) ==
    LET l == non_copy_layout(sa.storage.fill, n_bytes, align)
        moved == [sa EXCEPT !.storage = set_fill(@, l.end)]
    IN  IF out_of_memory(l.end, sa.storage.cap)
        THEN [ok |-> FALSE, sa |-> moved, type_description_start |-> 0, start |-> 0, end |-> l.end]
        ELSE [ok |-> TRUE, sa |-> moved,
              type_description_start |-> l.type_description_start,
              start |-> l.start, end |-> l.end]

\* StackAllocator::alloc_non_copy_inner: the capacity test, then set_fill(end).
alloc_non_copy_inner(sa, n_bytes, align) ==
    LET l == non_copy_layout(sa.storage.fill, n_bytes, align)
    IN  IF out_of_memory(l.end, sa.storage.cap)
        THEN [ok |-> FALSE, sa |-> sa, type_description_start |-> 0, start |-> 0, end |-> l.end]
        ELSE [ok |-> TRUE,
              sa |-> [sa EXCEPT !.storage = set_fill(@, l.end)],
              type_description_start |-> l.type_description_start,
              start |-> l.start, end |-> l.end]

\* StackAllocator::alloc_copy_inner: the capacity test, then set_fill(end).
alloc_copy_inner(sa, n_bytes, align) ==
    LET l == copy_layout(sa.storage_copy.fill, n_bytes, align)
    IN  IF out_of_memory(l.end, sa.storage_copy.cap)
        THEN [ok |-> FALSE, sa |-> sa, start |-> 0, end |-> l.end]
        ELSE [ok |-> TRUE,
              sa |-> [sa EXCEPT !.storage_copy = set_fill(@, l.end)],
              start |-> l.start, end |-> l.end]

\* The first half of alloc_non_copy / alloc_non_copy_mut, up to the call of the
\* closure: the reservation and the packed word with initialized = false.
alloc_non_copy_reserve(sa, T) ==
    LET type_description == get_type_description(T)
        r == alloc_non_copy_inner(sa, T.size, T.align)
    IN  IF ~r.ok THEN r
        ELSE [r EXCEPT !.sa.storage =
                write_word(@, r.type_description_start,
                           bitpack_type_description_ptr(type_description, FALSE))]

\* The second half of alloc_non_copy / alloc_non_copy_mut, after the closure has
\* returned: the object is written and the packed word gets initialized = true.
alloc_non_copy_complete(sa, type_description_start, T) ==
    [sa EXCEPT !.storage =
        write_word(@, type_description_start,
                   bitpack_type_description_ptr(get_type_description(T), TRUE))]

\* StackAllocator::marker / marker_copy
marker(sa) == sa.storage.fill
marker_copy(sa) == sa.storage_copy.fill

\* StackAllocator::capacity / capacity_copy
capacity(sa) == sa.storage.cap
capacity_copy(sa) == sa.storage_copy.cap


\* StackAllocator::reset: destroy(), then set_fill(0).
reset(sa) ==
    [sa   |-> [sa EXCEPT !.storage = set_fill(@, 0)],
     walk |-> destroy(sa.storage)]

\* StackAllocator::reset_copy: set_fill(0) on the copy chunk.
reset_copy(sa) == [sa EXCEPT !.storage_copy = set_fill(@, 0)]

\* A rollback that forgets to move the fill.
reset_to_marker_no_set_fill(sa, m) ==
    [sa |-> sa, walk |-> destroy_to_marker(sa.storage, m)]

\* A rollback that ignores its marker and empties the drop chunk.
reset_to_marker_ignoring_marker(sa, m) == reset(sa)

\* StackAllocator::reset_to_marker: destroy_to_marker(marker), then set_fill(marker).
reset_to_marker(sa, m) ==
    [sa   |-> [sa EXCEPT !.storage = set_fill(@, m)],
     walk |-> destroy_to_marker(sa.storage, m)]

\* A rollback of the copy chunk that moves the fill of the drop chunk too.
reset_to_marker_copy_both_chunks(sa, m) ==
    [sa EXCEPT !.storage_copy = set_fill(@, m), !.storage = set_fill(@, m)]

\* StackAllocator::reset_to_marker_copy: set_fill(marker) on the copy chunk.
reset_to_marker_copy(sa, m) == [sa EXCEPT !.storage_copy = set_fill(@, m)]

\* A drop of the allocator that releases the storage without the walk.
destroy_stack_forgotten(sa) == destroy_nothing(sa.storage)

\* impl Drop for StackAllocator: destroy_stack() walks the whole drop chunk.
destroy_stack(sa) == destroy(sa.storage)

\* An unchecked reservation that does not round the end of the record up.
alloc_non_copy_inner_unchecked_no_padding(sa, n_bytes, align) ==
    LET fill  == sa.storage.fill
        start == round_up(fill + WordSize, align)
        end   == start + n_bytes
    IN  [ok |-> TRUE,
         sa |-> [sa EXCEPT !.storage = set_fill(@, end)],
         type_description_start |-> fill,
         start |-> start, end |-> end]

\* StackAllocator::alloc_non_copy_inner_unchecked: the offsets, then
\* set_fill(end), with no test against the capacity.
alloc_non_copy_inner_unchecked(sa, n_bytes, align) ==
    LET fill                   == sa.storage.fill
        type_description_start == fill
        after_type_description == fill + WordSize
        start                  == round_up(after_type_description, align)
        end                    == round_up(start + n_bytes, WordAlign)
    IN  [ok |-> TRUE,
         sa |-> [sa EXCEPT !.storage = set_fill(@, end)],
         type_description_start |-> type_description_start,
         start |-> start, end |-> end]

\* StackAllocator::alloc_copy_inner_unchecked: the offsets, then set_fill(end),
\* with no test against the capacity.
alloc_copy_inner_unchecked(sa, n_bytes, align) ==
    LET fill  == sa.storage_copy.fill
        start == round_up(fill, align)
        end   == start + n_bytes
    IN  [ok |-> TRUE,
         sa |-> [sa EXCEPT !.storage_copy = set_fill(@, end)],
         start |-> start, end |-> end]

\* The first half of alloc_non_copy_unchecked / alloc_non_copy_mut_unchecked, up
\* to the call of the closure: the reservation and the packed word with
\* initialized = false.
alloc_non_copy_unchecked_reserve(sa, T) ==
    LET type_description == get_type_description(T)
        r == alloc_non_copy_inner_unchecked(sa, T.size, T.align)
    IN  [r EXCEPT !.sa.storage =
            write_word(@, r.type_description_start,
                       bitpack_type_description_ptr(type_description, FALSE))]

\* The second half of alloc_non_copy_unchecked / alloc_non_copy_mut_unchecked,
\* after the closure has returned: the packed word gets initialized = true.
alloc_non_copy_unchecked_complete(sa, type_description_start, T) ==
    [sa EXCEPT !.storage =
        write_word(@, type_description_start,
                   bitpack_type_description_ptr(get_type_description(T), TRUE))]

\* The contract of the caller of an unchecked allocation: the reservation
\* stays inside the storage of the chunk.
enough_room(end, chunk_capacity) == end <= chunk_capacity

(***************************************************************************)
(* DoubleBufferedAllocator (stacks/double_buffered_allocator.rs): two      *)
(* StackAllocators and the flag that selects the active one.  buffers[0]   *)
(* and buffers[1] of the code are buffers[1] and buffers[2] here.          *)
(***************************************************************************)
DoubleBufferedAllocator_with_capacity(chunk_capacity, chunk_capacity_copy) ==
    [buffers |-> << StackAllocator_with_capacity(chunk_capacity, chunk_capacity_copy),
                    StackAllocator_with_capacity(chunk_capacity, chunk_capacity_copy) >>,
     current |-> FALSE]

\* A selection that ignores the flag.
active_index_first(current) == 1

\* self.current as usize (+ 1, sequences being indexed from 1).
active_index(current) == IF current THEN 2 ELSE 1

\* DoubleBufferedAllocator::active_buffer
active_buffer(dba) == dba.buffers[active_index(dba.current)]

\* The DoubleBufferedAllocator whose active buffer has become sa.
with_active_buffer(dba, sa) ==
    [dba EXCEPT !.buffers[active_index(dba.current)] = sa]

\* A swap that leaves the flag as it is.
swap_buffers_nothing(dba) == dba

\* DoubleBufferedAllocator::swap_buffers: self.current = !self.current.
swap_buffers(dba) == [dba EXCEPT !.current = ~@]

\* A reset that empties the drop chunk of both buffers.
DoubleBufferedAllocator_reset_both(dba) ==
    [dba  |-> [dba EXCEPT !.buffers[1] = reset(@).sa, !.buffers[2] = reset(@).sa],
     walk |-> reset(active_buffer(dba)).walk]

\* DoubleBufferedAllocator::reset: self.active_buffer().reset()
DoubleBufferedAllocator_reset(dba) ==
    LET r == reset(active_buffer(dba))
    IN  [dba |-> with_active_buffer(dba, r.sa), walk |-> r.walk]

\* DoubleBufferedAllocator::reset_copy
DoubleBufferedAllocator_reset_copy(dba) ==
    with_active_buffer(dba, reset_copy(active_buffer(dba)))

\* DoubleBufferedAllocator::reset_to_marker
DoubleBufferedAllocator_reset_to_marker(dba, m) ==
    LET r == reset_to_marker(active_buffer(dba), m)
    IN  [dba |-> with_active_buffer(dba, r.sa), walk |-> r.walk]

\* DoubleBufferedAllocator::reset_to_marker_copy
DoubleBufferedAllocator_reset_to_marker_copy(dba, m) ==
    with_active_buffer(dba, reset_to_marker_copy(active_buffer(dba), m))

\* DoubleBufferedAllocator::marker / marker_copy
DoubleBufferedAllocator_marker(dba) == marker(active_buffer(dba))
DoubleBufferedAllocator_marker_copy(dba) == marker_copy(active_buffer(dba))

\* DoubleBufferedAllocator::capacity / capacity_copy
DoubleBufferedAllocator_capacity(dba) == capacity(active_buffer(dba))
DoubleBufferedAllocator_capacity_copy(dba) == capacity_copy(active_buffer(dba))

(***************************************************************************)
(* DoubleEndedStackAllocator (stacks/double_ended_allocator.rs): one       *)
(* StackAllocator for resident data and one for temporary data.            *)
(***************************************************************************)
\* A construction that hands the whole capacities to each side.
DoubleEndedStackAllocator_with_capacity_undivided(chunk_capacity, chunk_capacity_copy) ==
    [stack_resident |-> StackAllocator_with_capacity(chunk_capacity, chunk_capacity_copy),
     stack_temp     |-> StackAllocator_with_capacity(chunk_capacity, chunk_capacity_copy)]

DoubleEndedStackAllocator_with_capacity(chunk_capacity, chunk_capacity_copy) ==
    [stack_resident |-> StackAllocator_with_capacity(chunk_capacity \div 2,
                                                     chunk_capacity_copy \div 2),
     stack_temp     |-> StackAllocator_with_capacity(chunk_capacity \div 2,
                                                     chunk_capacity_copy \div 2)]

\* DoubleEndedStackAllocator::stack_resident / stack_temp
stack_resident(dea) == dea.stack_resident
stack_temp(dea) == dea.stack_temp

\* The field of a side, the StackAllocator of a side and the allocator whose
\* StackAllocator of that side has become sa.
Field(side) == IF side = "resident" THEN "stack_resident" ELSE "stack_temp"
stack_of(dea, side) == IF side = "resident" THEN stack_resident(dea) ELSE stack_temp(dea)
with_stack_of(dea, side, sa) == [dea EXCEPT ![Field(side)] = sa]

\* DoubleEndedStackAllocator::marker_resident / marker_temp and their _copy
marker_resident(dea) == marker(stack_resident(dea))
marker_temp(dea) == marker(stack_temp(dea))
marker_resident_copy(dea) == marker_copy(stack_resident(dea))
marker_temp_copy(dea) == marker_copy(stack_temp(dea))

\* A reset of the temporary side that resets the resident side too.
reset_temp_both_sides(dea) ==
    LET r == reset(stack_temp(dea))
    IN  [dea  |-> [dea EXCEPT !.stack_temp = r.sa,
                              !.stack_resident = reset(stack_resident(dea)).sa],
         walk |-> r.walk]

\* DoubleEndedStackAllocator::reset_resident / reset_temp
reset_resident(dea) ==
    LET r == reset(stack_resident(dea))
    IN  [dea |-> [dea EXCEPT !.stack_resident = r.sa], walk |-> r.walk]

reset_temp(dea) ==
    LET r == reset(stack_temp(dea))
    IN  [dea |-> [dea EXCEPT !.stack_temp = r.sa], walk |-> r.walk]

\* DoubleEndedStackAllocator::reset_resident_copy / reset_temp_copy
reset_resident_copy(dea) == [dea EXCEPT !.stack_resident = reset_copy(@)]
reset_temp_copy(dea) == [dea EXCEPT !.stack_temp = reset_copy(@)]

\* DoubleEndedStackAllocator::reset_to_marker_resident / reset_to_marker_temp
reset_to_marker_resident(dea, m) ==
    LET r == reset_to_marker(stack_resident(dea), m)
    IN  [dea |-> [dea EXCEPT !.stack_resident = r.sa], walk |-> r.walk]

reset_to_marker_temp(dea, m) ==
    LET r == reset_to_marker(stack_temp(dea), m)
    IN  [dea |-> [dea EXCEPT !.stack_temp = r.sa], walk |-> r.walk]

\* DoubleEndedStackAllocator::reset_to_marker_resident_copy / _temp_copy
reset_to_marker_resident_copy(dea, m) ==
    [dea EXCEPT !.stack_resident = reset_to_marker_copy(@, m)]
reset_to_marker_temp_copy(dea, m) ==
    [dea EXCEPT !.stack_temp = reset_to_marker_copy(@, m)]

(***************************************************************************)
(* PoolAllocator (pool_allocator.rs, pool_item.rs) and the drop of its     *)
(* owning pointers (unique_ptr.rs, shared_ptr.rs).                          *)
(*                                                                         *)
(* Option<usize> is a sequence of at most one index. shared_unique is the  *)
(* part of the storage of an item in which the two cells of a SharedUnique *)
(* lie: as the storage is never zeroed, the cells keep their values when   *)
(* the value is destroyed, and an object allocated by alloc_unique         *)
(* (bytes 12..16 of the item for a Monster) does not reach them (bytes     *)
(* 16..32).                                                                *)
(***************************************************************************)
None == <<>>
Some(index) == <<index>>

PoolItem_new(size, next) ==
    [storage |-> MemoryChunk_new(size), next |-> next,
     shared_unique |-> [strong |-> 0, weak |-> 0]]

PoolAllocator_new(nb_item, size_item) ==
    [storage |-> [i \in 0..(nb_item - 1) |->
                     PoolItem_new(size_item,
                                  IF i < nb_item - 1 THEN Some(i + 1) ELSE None)],
     first_available |-> Some(0)]

first_available(pa) == pa.first_available

\* PoolAllocator::alloc_non_copy_inner: first_available moves to the next
\* link of the item before the capacity of the item is tested.
PoolAllocator_alloc_non_copy_inner(pa, chunk_index, n_bytes, align) ==
    LET non_copy_storage == pa.storage[chunk_index]
        moved == [pa EXCEPT !.first_available = non_copy_storage.next]
        l == non_copy_layout(non_copy_storage.storage.fill, n_bytes, align)
    IN  IF out_of_memory(l.end, non_copy_storage.storage.cap)
        THEN [ok |-> FALSE, pa |-> moved, type_description_start |-> 0, start |-> 0]
        ELSE [ok |-> TRUE,
              pa |-> [moved EXCEPT !.storage[chunk_index].storage = set_fill(@, l.end)],
              type_description_start |-> l.type_description_start,
              start |-> l.start]

\* The writes of alloc_non_copy_unique / alloc_non_copy_shared in the item:
\* the type description with the is_done bit clear, then, if the
\* initializer returns, the object and the type description with the bit
\* set. cells is <<>> or the pair of cells a SharedUnique starts with.
PoolAllocator_write(pa, chunk_index, type_description_start, T, panics, cells) ==
    LET type_description == get_type_description(T)
    IN  [pa EXCEPT
            !.storage[chunk_index].storage =
                write_word(@, type_description_start,
                    bitpack_type_description_ptr(type_description, ~panics)),
            !.storage[chunk_index].shared_unique =
                IF panics \/ cells = <<>> THEN @ ELSE cells[1]]

\* PoolAllocator::alloc_unique (alloc_non_copy_unique) and
\* PoolAllocator::alloc_shared (alloc_non_copy_shared) of a T, U being T or
\* SharedUnique<T>; ran tells whether the initializer was called.
PoolAllocator_alloc(pa, U, panics, cells) ==
    IF first_available(pa) = None
    THEN [result |-> "OutOfPoolError", pa |-> pa, index |-> 0, ran |-> FALSE,
          start |-> 0]
    ELSE LET index == first_available(pa)[1]
             r == PoolAllocator_alloc_non_copy_inner(pa, index, U.size, U.align)
         IN  IF ~r.ok
             THEN [result |-> "OutOfMemoryError", pa |-> r.pa, index |-> index,
                   ran |-> FALSE, start |-> 0]
             ELSE [result |-> IF panics THEN "Panic" ELSE "Ok",
                   pa |-> PoolAllocator_write(r.pa, index, r.type_description_start,
                                              U, panics, cells),
                   index |-> index, ran |-> TRUE, start |-> r.start]

alloc_unique(pa, T, panics) == PoolAllocator_alloc(pa, T, panics, <<>>)

alloc_shared(pa, U, panics) ==
    PoolAllocator_alloc(pa, U, panics, << [strong |-> 1, weak |-> 1] >>)

\* A drop that forgets to link the item to the previous head.
UniquePtr_drop_unlinked(pa, chunk_index) ==
    LET pool_item == pa.storage[chunk_index]
    IN  [pa   |-> [pa EXCEPT !.first_available = Some(chunk_index),
                             !.storage[chunk_index].storage = set_fill(@, 0)],
         walk |-> destroy(pool_item.storage)]

\* A drop that leaves the fill of the item where it is.
UniquePtr_drop_keeping_fill(pa, chunk_index) ==
    LET current_first_available == first_available(pa)
        pool_item == pa.storage[chunk_index]
    IN  [pa   |-> [pa EXCEPT !.first_available = Some(chunk_index),
                             !.storage[chunk_index].next = current_first_available],
         walk |-> destroy(pool_item.storage)]

\* impl Drop for UniquePtr: the item is linked to the current head and
\* becomes the head, its objects are destroyed and its fill is set to 0.
UniquePtr_drop(pa, chunk_index) ==
    LET current_first_available == first_available(pa)
        pool_item == pa.storage[chunk_index]
    IN  [pa   |-> [pa EXCEPT !.first_available = Some(chunk_index),
                             !.storage[chunk_index].next = current_first_available,
                             !.storage[chunk_index].storage = set_fill(@, 0)],
         walk |-> destroy(pool_item.storage)]

\* SharedUniquePtr::strong / weak and their increments and decrements.
strong(pa, chunk_index) == pa.storage[chunk_index].shared_unique.strong
weak(pa, chunk_index) == pa.storage[chunk_index].shared_unique.weak
inc_strong(pa, chunk_index) ==
    [pa EXCEPT !.storage[chunk_index].shared_unique.strong = @ + 1]
dec_strong(pa, chunk_index) ==
    [pa EXCEPT !.storage[chunk_index].shared_unique.strong = @ - 1]
inc_weak(pa, chunk_index) ==
    [pa EXCEPT !.storage[chunk_index].shared_unique.weak = @ + 1]
dec_weak(pa, chunk_index) ==
    [pa EXCEPT !.storage[chunk_index].shared_unique.weak = @ - 1]

\* SharedPtr::strong_count and SharedPtr::weak_count (weak() - 1).
strong_count(pa, chunk_index) == strong(pa, chunk_index)
weak_count(pa, chunk_index) == weak(pa, chunk_index) - 1

\* impl Drop for SharedPtr: dec_strong, and at zero what the drop of a
\* UniquePtr does.
SharedPtr_drop(pa, chunk_index) ==
    LET decremented == dec_strong(pa, chunk_index)
    IN  IF strong(decremented, chunk_index) = 0
        THEN UniquePtr_drop(decremented, chunk_index)
        ELSE [pa   |-> decremented,
              walk |-> [visited |-> <<>>, drops |-> <<>>, uninit_read |-> FALSE,
                        stop |-> 0]]

\* WeakPtr::upgrade: None when strong() is 0, else inc_strong.
WeakPtr_upgrade(pa, chunk_index) ==
    IF strong(pa, chunk_index) = 0
    THEN [some |-> FALSE, pa |-> pa]
    ELSE [some |-> TRUE, pa |-> inc_strong(pa, chunk_index)]

(***************************************************************************)
(* StackAllocatorCopy (stack_allocator_copy.rs): one MemoryChunk that      *)
(* holds objects of Copy types, with no type description.                  *)
(***************************************************************************)
StackAllocatorCopy_with_capacity(chunk_capacity) ==
    [storage |-> MemoryChunk_new(chunk_capacity)]

\* A reservation that places the object at the smallest multiple of align
\* that is not below the fill.
StackAllocatorCopy_alloc_copy_inner_smallest_multiple(sac, n_bytes, align) ==
    LET fill  == sac.storage.fill
        start == ((fill + align - 1) \div align) * align
        end   == start + n_bytes
    IN  IF end >= sac.storage.cap
        THEN [ok |-> FALSE, err |-> "OutOfPoolError", sac |-> sac,
              start |-> 0, end |-> end]
        ELSE [ok |-> TRUE, err |-> "-",
              sac |-> [sac EXCEPT !.storage = set_fill(@, end)],
              start |-> start, end |-> end]

\* StackAllocatorCopy::alloc_copy_inner: round_up(fill, align), the capacity
\* test, then set_fill(end).
StackAllocatorCopy_alloc_copy_inner(sac, n_bytes, align) ==
    LET fill  == sac.storage.fill
        start == round_up(fill, align)
        end   == start + n_bytes
    IN  IF end >= sac.storage.cap
        THEN [ok |-> FALSE, err |-> "OutOfPoolError", sac |-> sac,
              start |-> 0, end |-> end]
        ELSE [ok |-> TRUE, err |-> "-",
              sac |-> [sac EXCEPT !.storage = set_fill(@, end)],
              start |-> start, end |-> end]

\* StackAllocatorCopy::marker
StackAllocatorCopy_marker(sac) == sac.storage.fill

\* StackAllocatorCopy::reset
StackAllocatorCopy_reset(sac) == [sac EXCEPT !.storage = set_fill(@, 0)]

\* StackAllocatorCopy::reset_to_marker
StackAllocatorCopy_reset_to_marker(sac, m) == [sac EXCEPT !.storage = set_fill(@, m)]

(***************************************************************************)
(* The state machine of one StackAllocator and its caller.                 *)
(*                                                                         *)
(*   stack         the StackAllocator                                      *)
(*   pending       the allocations whose closure is running, outermost     *)
(*                 first                                                   *)
(*   markers       the values marker() has returned that no reset has      *)
(*                 passed: the markers the caller may still hand back      *)
(*   markers_copy  the same for marker_copy()                              *)
(*   recs          history: the records reserved in the drop chunk and not *)
(*                 reset past, in the order of their reservation, each     *)
(*                 "pending", "done" (closure returned) or "aborted"       *)
(*   last          the last operation ("alloc" stands for alloc and        *)
(*                 alloc_mut, whose code is the same), its arguments, its  *)
(*                 result and the markers and records before it            *)
(*   alive         FALSE once the allocator has been dropped               *)
(*   call          a call of a function of utils.rs on its own: its        *)
(*                 arguments and, once it has returned, its result         *)
(*                                                                         *)
(* The caller keeps the contract of section 4.3: reset_to_marker gets a    *)
(* marker it holds, and a closure only allocates and reads markers.        *)
(***************************************************************************)
\* The arguments of with_capacity: StackAllocator::with_capacity(c, cc) for
\* each <<c, cc>> of the set.
Capacities ==
    { <<MaxCapacity, 0>>, <<MaxCapacity - 6, 0>>,
      <<0, MaxCapacityCopy>>, <<MixCapacity, MixCapacityCopy>> }

NoWalk == [visited |-> <<>>, drops |-> <<>>, uninit_read |-> FALSE, stop |-> 0]

Snapshot ==
    [fill |-> marker(stack), fill_copy |-> marker_copy(stack), recs |-> recs,
     stack |-> stack]

Outcome(op, ty, result, at, m, walk, before) ==
    [op |-> op, ty |-> ty, result |-> result, at |-> at, m |-> m,
     end |-> 0, walk |-> walk, before |-> before]

\* buffered, ended and pool when none of the other allocators is constructed.
NoDoubleBufferedAllocator == [op |-> "none"]
NoDoubleEndedStackAllocator == [op |-> "none"]
NoPoolAllocator == [op |-> "none"]
NoDoubleEndedMemoryChunk == [op |-> "none"]

NoOthers ==
    /\ buffered = NoDoubleBufferedAllocator
    /\ ended = NoDoubleEndedStackAllocator
    /\ pool = NoPoolAllocator
    /\ ended_chunk = NoDoubleEndedMemoryChunk

\* The result of an operation of a StackAllocatorCopy.
OutcomeCopy(op, ty, result, at, m, before) ==
    [op |-> op, ty |-> ty, result |-> result, at |-> at, m |-> m, before |-> before]

\* copy_stack when there is no StackAllocatorCopy.
NoStackAllocatorCopy ==
    [sac     |-> StackAllocatorCopy_with_capacity(0),
     markers |-> {},
     last    |-> OutcomeCopy("none", "-", "Ok", 0, 0, 0)]

Init ==
    \E c \in Capacities :
        /\ stack = StackAllocator_with_capacity(c[1], c[2])
        /\ pending = <<>>
        /\ markers = {}
        /\ markers_copy = {}
        /\ recs = <<>>
        /\ last = Outcome("with_capacity", "-", "Ok", 0, 0, NoWalk, Snapshot)
        /\ alive = TRUE
        /\ call = [fn |-> "none"]
        /\ copy_stack = NoStackAllocatorCopy
        /\ NoOthers

\* alloc / alloc_mut of a droppable type, up to the call of the closure.
AllocNonCopyStart(op, T) ==
    LET r == alloc_non_copy_reserve(stack, T)
    IN  IF ~r.ok
        THEN /\ stack' = r.sa
             /\ last' = [Outcome(op, T.name, "OutOfMemoryError", 0, 0, NoWalk, Snapshot)
                            EXCEPT !.end = r.end]
             /\ UNCHANGED <<pending, markers, markers_copy, recs, alive, call, copy_stack, others>>
        ELSE /\ stack' = r.sa
             /\ pending' = Append(pending,
                    [op |-> op, T |-> T,
                     type_description_start |-> r.type_description_start,
                     start |-> r.start, end |-> r.end, before |-> Snapshot])
             /\ recs' = Append(recs,
                    [type_description_start |-> r.type_description_start,
                     start |-> r.start, end |-> r.end,
                     type_description |-> get_type_description(T),
                     depth |-> Len(pending), state |-> "pending"])
             /\ last' = [Outcome(op, T.name, "InClosure", r.start, 0, NoWalk, Snapshot)
                            EXCEPT !.end = r.end]
             /\ UNCHANGED <<markers, markers_copy, alive, call, copy_stack, others>>

\* alloc / alloc_mut of a type that needs no drop, up to the call of the closure.
AllocCopyStart(op, T) ==
    LET r == alloc_copy_inner(stack, T.size, T.align)
    IN  IF ~r.ok
        THEN /\ stack' = r.sa
             /\ last' = [Outcome(op, T.name, "OutOfMemoryError", 0, 0, NoWalk, Snapshot)
                            EXCEPT !.end = r.end]
             /\ UNCHANGED <<pending, markers, markers_copy, recs, alive, call, copy_stack, others>>
        ELSE /\ stack' = r.sa
             /\ pending' = Append(pending,
                    [op |-> op, T |-> T, type_description_start |-> 0,
                     start |-> r.start, end |-> r.end, before |-> Snapshot])
             /\ last' = [Outcome(op, T.name, "InClosure", r.start, 0, NoWalk, Snapshot)
                            EXCEPT !.end = r.end]
             /\ UNCHANGED <<markers, markers_copy, recs, alive, call, copy_stack, others>>

\* StackAllocator::alloc: the dispatch on needs_drop::<T>().
Alloc(T) ==
    /\ alive
    /\ pending = <<>>
    /\ IF T.needs_drop THEN AllocNonCopyStart("alloc", T) ELSE AllocCopyStart("alloc", T)

\* StackAllocator::alloc_mut: the dispatch on needs_drop::<T>().
AllocMut(T) ==
    /\ alive
    /\ pending = <<>>
    /\ IF T.needs_drop THEN AllocNonCopyStart("alloc", T)
                       ELSE AllocCopyStart("alloc", T)

\* alloc_unchecked / alloc_mut_unchecked of a droppable type, up to the call of
\* the closure.  The caller has made sure that the record fits in the chunk.
AllocNonCopyUncheckedStart(op, T) ==
    LET r == alloc_non_copy_unchecked_reserve(stack, T)
    IN  /\ enough_room(r.end, capacity(stack))
        /\ stack' = r.sa
        /\ pending' = Append(pending,
               [op |-> op, T |-> T,
                type_description_start |-> r.type_description_start,
                start |-> r.start, end |-> r.end, before |-> Snapshot])
        /\ recs' = Append(recs,
               [type_description_start |-> r.type_description_start,
                start |-> r.start, end |-> r.end,
                type_description |-> get_type_description(T),
                depth |-> Len(pending), state |-> "pending"])
        /\ last' = [Outcome(op, T.name, "InClosure", r.start, 0, NoWalk, Snapshot)
                       EXCEPT !.end = r.end]
        /\ UNCHANGED <<markers, markers_copy, alive, call, copy_stack, others>>

\* alloc_unchecked / alloc_mut_unchecked of a type that needs no drop, up to the
\* call of the closure.  The caller has made sure that the object fits.
AllocCopyUncheckedStart(op, T) ==
    LET r == alloc_copy_inner_unchecked(stack, T.size, T.align)
    IN  /\ enough_room(r.end, capacity_copy(stack))
        /\ stack' = r.sa
        /\ pending' = Append(pending,
               [op |-> op, T |-> T, type_description_start |-> 0,
                start |-> r.start, end |-> r.end, before |-> Snapshot])
        /\ last' = [Outcome(op, T.name, "InClosure", r.start, 0, NoWalk, Snapshot)
                       EXCEPT !.end = r.end]
        /\ UNCHANGED <<markers, markers_copy, recs, alive, call, copy_stack, others>>

\* StackAllocator::alloc_unchecked: the dispatch on needs_drop::<T>().
AllocUnchecked(T) ==
    /\ alive
    /\ pending = <<>>
    /\ IF T.needs_drop THEN AllocNonCopyUncheckedStart("alloc_unchecked", T)
                       ELSE AllocCopyUncheckedStart("alloc_unchecked", T)

\* StackAllocator::alloc_mut_unchecked: the dispatch on needs_drop::<T>().
AllocMutUnchecked(T) ==
    /\ alive
    /\ pending = <<>>
    /\ IF T.needs_drop THEN AllocNonCopyUncheckedStart("alloc_unchecked", T)
                       ELSE AllocCopyUncheckedStart("alloc_unchecked", T)

SetState(rs, type_description_start, state) ==
    [i \in 1..Len(rs) |->
        IF rs[i].type_description_start = type_description_start
        THEN [rs[i] EXCEPT !.state = state] ELSE rs[i]]

\* The innermost running closure returns: ptr::write(ptr, op()), then, for a
\* droppable type, the packed word with initialized = true.
ClosureReturns ==
    /\ alive
    /\ pending # <<>>
    /\ LET p == pending[Len(pending)]
       IN  /\ pending' = SubSeq(pending, 1, Len(pending) - 1)
           /\ IF p.T.needs_drop
              THEN /\ stack' = IF p.op = "alloc_unchecked"
                               THEN alloc_non_copy_unchecked_complete(
                                        stack, p.type_description_start, p.T)
                               ELSE alloc_non_copy_complete(
                                        stack, p.type_description_start, p.T)
                   /\ recs' = SetState(recs, p.type_description_start, "done")
              ELSE UNCHANGED <<stack, recs>>
           /\ last' = [Outcome(p.op, p.T.name, "Ok", p.start, 0, NoWalk, p.before)
                          EXCEPT !.end = p.end]
    /\ UNCHANGED <<markers, markers_copy, alive, call, copy_stack, others>>

\* The innermost running closure panics: the allocation is left as the
\* reservation made it and the panic leaves alloc.
ClosurePanics ==
    /\ alive
    /\ pending # <<>>
    /\ LET p == pending[Len(pending)]
       IN  /\ pending' = SubSeq(pending, 1, Len(pending) - 1)
           /\ IF p.T.needs_drop
              THEN recs' = SetState(recs, p.type_description_start, "aborted")
              ELSE UNCHANGED recs
           /\ last' = [Outcome(p.op, p.T.name, "Panic", p.start, 0, NoWalk, p.before)
                          EXCEPT !.end = p.end]
    /\ UNCHANGED <<stack, markers, markers_copy, alive, call, copy_stack, others>>

\* StackAllocator::marker
Marker ==
    /\ alive
    /\ markers' = markers \cup {marker(stack)}
    /\ last' = Outcome("marker", "-", "Ok", 0, marker(stack), NoWalk, Snapshot)
    /\ UNCHANGED <<stack, pending, markers_copy, recs, alive, call, copy_stack, others>>

\* StackAllocator::marker_copy
MarkerCopy ==
    /\ alive
    /\ markers_copy' = markers_copy \cup {marker_copy(stack)}
    /\ last' = Outcome("marker_copy", "-", "Ok", 0, marker_copy(stack), NoWalk, Snapshot)
    /\ UNCHANGED <<stack, pending, markers, recs, alive, call, copy_stack, others>>

Below(rs, m) == SelectSeq(rs, LAMBDA r : r.type_description_start < m)

\* StackAllocator::reset
Reset ==
    /\ alive
    /\ pending = <<>>
    /\ LET r == reset(stack)
       IN  /\ stack' = r.sa
           /\ last' = Outcome("reset", "-", "Ok", 0, 0, r.walk, Snapshot)
           /\ markers' = {x \in markers : x <= marker(r.sa)}
           /\ recs' = Below(recs, marker(r.sa))
    /\ UNCHANGED <<pending, markers_copy, alive, call, copy_stack, others>>

\* StackAllocator::reset_copy
ResetCopy ==
    /\ alive
    /\ pending = <<>>
    /\ stack' = reset_copy(stack)
    /\ last' = Outcome("reset_copy", "-", "Ok", 0, 0, NoWalk, Snapshot)
    /\ markers_copy' = {x \in markers_copy : x <= marker_copy(stack')}
    /\ UNCHANGED <<pending, markers, recs, alive, call, copy_stack, others>>

\* StackAllocator::reset_to_marker, with a marker the caller holds
ResetToMarker(m) ==
    /\ alive
    /\ pending = <<>>
    /\ m \in markers
    /\ LET r == reset_to_marker(stack, m)
       IN  /\ stack' = r.sa
           /\ last' = Outcome("reset_to_marker", "-", "Ok", 0, m, r.walk, Snapshot)
           /\ markers' = {x \in markers : x <= marker(r.sa)}
           /\ recs' = Below(recs, marker(r.sa))
    /\ UNCHANGED <<pending, markers_copy, alive, call, copy_stack, others>>

\* StackAllocator::reset_to_marker_copy, with a marker the caller holds
ResetToMarkerCopy(m) ==
    /\ alive
    /\ pending = <<>>
    /\ m \in markers_copy
    /\ stack' = reset_to_marker_copy(stack, m)
    /\ last' = Outcome("reset_to_marker_copy", "-", "Ok", 0, m, NoWalk, Snapshot)
    /\ markers_copy' = {x \in markers_copy : x <= marker_copy(stack')}
    /\ UNCHANGED <<pending, markers, recs, alive, call, copy_stack, others>>

\* impl Drop for StackAllocator: the walk of the whole drop chunk, then the
\* storage is released.
DropAllocator ==
    /\ alive
    /\ pending = <<>>
    /\ alive' = FALSE
    /\ last' = Outcome("drop", "-", "Ok", 0, 0, destroy_stack(stack), Snapshot)
    /\ recs' = <<>>
    /\ markers' = {}
    /\ markers_copy' = {}
    /\ UNCHANGED <<stack, pending, call, copy_stack, others>>

Next ==
    \/ \E T \in Types : Alloc(T)
    \/ \E T \in Types : AllocMut(T)
    \/ \E T \in Types : AllocUnchecked(T)
    \/ \E T \in Types : AllocMutUnchecked(T)
    \/ ClosureReturns
    \/ ClosurePanics
    \/ Marker
    \/ MarkerCopy
    \/ Reset
    \/ ResetCopy
    \/ \E m \in markers : ResetToMarker(m)
    \/ \E m \in markers_copy : ResetToMarkerCopy(m)
    \/ DropAllocator

Spec == Init /\ [][Next]_vars

(***************************************************************************)
(* The state machine of one StackAllocatorCopy and its caller.             *)
(*                                                                         *)
(*   copy_stack.sac      the StackAllocatorCopy                            *)
(*   copy_stack.markers  the values marker() has returned that no reset    *)
(*                       has passed                                        *)
(*   copy_stack.last     the last operation, its arguments, its result and *)
(*                       the fill before it                                *)
(***************************************************************************)
InitStackCopy ==
    /\ stack = StackAllocator_with_capacity(0, 0)
    /\ pending = <<>>
    /\ markers = {}
    /\ markers_copy = {}
    /\ recs = <<>>
    /\ last = Outcome("with_capacity", "-", "Ok", 0, 0, NoWalk, Snapshot)
    /\ alive = TRUE
    /\ call = [fn |-> "none"]
    /\ copy_stack =
           [sac     |-> StackAllocatorCopy_with_capacity(MaxCapacityStackCopy),
            markers |-> {},
            last    |-> OutcomeCopy("with_capacity", "-", "Ok", 0, 0, 0)]
    /\ NoOthers

StackAllocatorVars ==
    <<stack, pending, markers, markers_copy, recs, last, alive, call, others>>

\* StackAllocatorCopy::alloc: alloc_copy_inner, then the closure runs and its
\* value is written; a closure that panics leaves the reservation behind.
StackCopyAlloc(T, panics) ==
    LET sac == copy_stack.sac
        r   == StackAllocatorCopy_alloc_copy_inner(sac, T.size, T.align)
        f   == StackAllocatorCopy_marker(sac)
    IN  /\ copy_stack' =
               [copy_stack EXCEPT
                   !.sac  = r.sac,
                   !.last = IF ~r.ok THEN OutcomeCopy("alloc", T.name, r.err, 0, 0, f)
                            ELSE IF panics
                                 THEN OutcomeCopy("alloc", T.name, "Panic", r.start, 0, f)
                                 ELSE OutcomeCopy("alloc", T.name, "Ok", r.start, 0, f)]
        /\ UNCHANGED StackAllocatorVars

\* StackAllocatorCopy::marker
StackCopyMarker ==
    LET m == StackAllocatorCopy_marker(copy_stack.sac)
    IN  /\ copy_stack' =
               [copy_stack EXCEPT
                   !.markers = @ \cup {m},
                   !.last    = OutcomeCopy("marker", "-", "Ok", 0, m, m)]
        /\ UNCHANGED StackAllocatorVars

\* StackAllocatorCopy::reset
StackCopyReset ==
    LET f == StackAllocatorCopy_marker(copy_stack.sac)
    IN  /\ copy_stack' =
               [copy_stack EXCEPT
                   !.sac     = StackAllocatorCopy_reset(@),
                   !.markers = {x \in @ : x <= 0},
                   !.last    = OutcomeCopy("reset", "-", "Ok", 0, 0, f)]
        /\ UNCHANGED StackAllocatorVars

\* StackAllocatorCopy::reset_to_marker, with a marker the caller holds
StackCopyResetToMarker(m) ==
    LET f == StackAllocatorCopy_marker(copy_stack.sac)
    IN  /\ m \in copy_stack.markers
        /\ copy_stack' =
               [copy_stack EXCEPT
                   !.sac     = StackAllocatorCopy_reset_to_marker(@, m),
                   !.markers = {x \in @ : x <= m},
                   !.last    = OutcomeCopy("reset_to_marker", "-", "Ok", 0, m, f)]
        /\ UNCHANGED StackAllocatorVars

NextStackCopy ==
    \/ \E T \in CopyTypes, panics \in BOOLEAN : StackCopyAlloc(T, panics)
    \/ StackCopyMarker
    \/ StackCopyReset
    \/ \E m \in copy_stack.markers : StackCopyResetToMarker(m)

SpecStackCopy == InitStackCopy /\ [][NextStackCopy]_vars

(***************************************************************************)
(* The state machine of one DoubleBufferedAllocator and its caller.        *)
(*                                                                         *)
(*   buffered.dba           the DoubleBufferedAllocator                    *)
(*   buffered.recs          history, for each buffer: the records reserved *)
(*                          in its drop chunk and not reset past, each     *)
(*                          "done" or "aborted", with the number of swaps  *)
(*                          of the frame loop since its allocation (age)   *)
(*   buffered.markers       for each buffer, the markers the caller holds  *)
(*   buffered.markers_copy  the same for the copy chunks                   *)
(*   buffered.last          the last operation, its result and its walk    *)
(*   buffered.phase         "free" when the caller calls what it likes;    *)
(*                          in the frame loop of the documentation, what   *)
(*                          the caller did last: "swapped", "reset" or     *)
(*                          "frame" (reset_copy done, allocations go on)   *)
(*                                                                         *)
(* swap_buffers takes &mut self, so no closure of an allocation is running *)
(* when it is called; an allocation is one step, whose closure returns or  *)
(* panics.                                                                 *)
(***************************************************************************)
\* The types the caller of the DoubleBufferedAllocator allocates: the Monster of
\* its tests and a type that needs no drop.
BufferedTypes == {T \in Types : T.name \in {"Monster", "u8"}}

BufferedOutcome(op, ty, result, at, m, walk) ==
    [op |-> op, ty |-> ty, result |-> result, at |-> at, m |-> m, walk |-> walk]

NewDoubleBufferedAllocator(phase) ==
    LET dba == DoubleBufferedAllocator_with_capacity(BufferedCapacity, BufferedCapacityCopy)
    IN  [dba          |-> dba,
         recs         |-> << <<>>, <<>> >>,
         markers      |-> << {}, {} >>,
         markers_copy |-> << {}, {} >>,
         phase        |-> phase,
         last         |-> BufferedOutcome("with_capacity", "-", "Ok", 0, 0, NoWalk)]

NotBuffered ==
    <<stack, pending, markers, markers_copy, recs, last, alive, call, copy_stack,
      ended, pool, ended_chunk>>

NoStackAllocator ==
    /\ stack = StackAllocator_with_capacity(0, 0)
    /\ pending = <<>>
    /\ markers = {}
    /\ markers_copy = {}
    /\ recs = <<>>
    /\ last = Outcome("with_capacity", "-", "Ok", 0, 0, NoWalk, Snapshot)
    /\ alive = TRUE
    /\ call = [fn |-> "none"]
    /\ copy_stack = NoStackAllocatorCopy

InitBuffered ==
    /\ NoStackAllocator
    /\ buffered = NewDoubleBufferedAllocator("free")
    /\ ended = NoDoubleEndedStackAllocator
    /\ pool = NoPoolAllocator
    /\ ended_chunk = NoDoubleEndedMemoryChunk

\* DoubleBufferedAllocator::alloc / alloc_mut: the allocation of the active
\* buffer, whose closure returns or panics.
AfterBufferedAlloc(b, T, panics) ==
    LET a  == active_index(b.dba.current)
        sa == active_buffer(b.dba)
    IN  IF T.needs_drop
        THEN LET r == alloc_non_copy_reserve(sa, T)
             IN  IF ~r.ok
                 THEN [b EXCEPT !.last = BufferedOutcome("alloc", T.name,
                                             "OutOfMemoryError", 0, 0, NoWalk)]
                 ELSE [b EXCEPT
                          !.dba = with_active_buffer(b.dba,
                                      IF panics THEN r.sa
                                      ELSE alloc_non_copy_complete(
                                               r.sa, r.type_description_start, T)),
                          !.recs[a] = Append(@,
                                      [type_description_start |-> r.type_description_start,
                                       start |-> r.start, end |-> r.end,
                                       type_description |-> get_type_description(T),
                                       state |-> IF panics THEN "aborted" ELSE "done",
                                       age |-> 0]),
                          !.last = BufferedOutcome("alloc", T.name,
                                       IF panics THEN "Panic" ELSE "Ok",
                                       r.start, 0, NoWalk)]
        ELSE LET r == alloc_copy_inner(sa, T.size, T.align)
             IN  IF ~r.ok
                 THEN [b EXCEPT !.last = BufferedOutcome("alloc", T.name,
                                             "OutOfMemoryError", 0, 0, NoWalk)]
                 ELSE [b EXCEPT
                          !.dba = with_active_buffer(b.dba, r.sa),
                          !.last = BufferedOutcome("alloc", T.name,
                                       IF panics THEN "Panic" ELSE "Ok",
                                       r.start, 0, NoWalk)]

AfterBufferedMarker(b) ==
    LET a == active_index(b.dba.current)
        m == DoubleBufferedAllocator_marker(b.dba)
    IN  [b EXCEPT !.markers[a] = @ \cup {m},
                  !.last = BufferedOutcome("marker", "-", "Ok", 0, m, NoWalk)]

AfterBufferedMarkerCopy(b) ==
    LET a == active_index(b.dba.current)
        m == DoubleBufferedAllocator_marker_copy(b.dba)
    IN  [b EXCEPT !.markers_copy[a] = @ \cup {m},
                  !.last = BufferedOutcome("marker_copy", "-", "Ok", 0, m, NoWalk)]

\* What a reset or a rollback of the drop chunk of the active buffer leaves.
AfterBufferedWalk(b, op, m, r) ==
    LET a == active_index(b.dba.current)
        f == marker(r.dba.buffers[a])
    IN  [b EXCEPT !.dba = r.dba,
                  !.recs[a] = Below(@, f),
                  !.markers[a] = {x \in @ : x <= f},
                  !.last = BufferedOutcome(op, "-", "Ok", 0, m, r.walk)]

AfterBufferedReset(b) ==
    AfterBufferedWalk(b, "reset", 0, DoubleBufferedAllocator_reset(b.dba))

AfterBufferedResetToMarker(b, m) ==
    AfterBufferedWalk(b, "reset_to_marker", m,
                      DoubleBufferedAllocator_reset_to_marker(b.dba, m))

AfterBufferedResetCopy(b) ==
    LET a == active_index(b.dba.current)
    IN  [b EXCEPT !.dba = DoubleBufferedAllocator_reset_copy(b.dba),
                  !.markers_copy[a] = {x \in @ : x <= 0},
                  !.last = BufferedOutcome("reset_copy", "-", "Ok", 0, 0, NoWalk)]

AfterBufferedResetToMarkerCopy(b, m) ==
    LET a == active_index(b.dba.current)
    IN  [b EXCEPT !.dba = DoubleBufferedAllocator_reset_to_marker_copy(b.dba, m),
                  !.markers_copy[a] = {x \in @ : x <= m},
                  !.last = BufferedOutcome("reset_to_marker_copy", "-", "Ok", 0, m,
                                           NoWalk)]

AfterBufferedSwap(b) ==
    [b EXCEPT !.dba = swap_buffers(b.dba),
              !.last = BufferedOutcome("swap_buffers", "-", "Ok", 0, 0, NoWalk)]

BufferedAlloc(T, panics) ==
    /\ buffered.phase = "free"
    /\ buffered' = AfterBufferedAlloc(buffered, T, panics)
    /\ UNCHANGED NotBuffered

BufferedAllocMut(T, panics) ==
    /\ buffered.phase = "free"
    /\ buffered' = AfterBufferedAlloc(buffered, T, panics)
    /\ UNCHANGED NotBuffered

BufferedMarker ==
    /\ buffered.phase = "free"
    /\ buffered' = AfterBufferedMarker(buffered)
    /\ UNCHANGED NotBuffered

BufferedMarkerCopy ==
    /\ buffered.phase = "free"
    /\ buffered' = AfterBufferedMarkerCopy(buffered)
    /\ UNCHANGED NotBuffered

BufferedReset ==
    /\ buffered.phase = "free"
    /\ buffered' = AfterBufferedReset(buffered)
    /\ UNCHANGED NotBuffered

BufferedResetCopy ==
    /\ buffered.phase = "free"
    /\ buffered' = AfterBufferedResetCopy(buffered)
    /\ UNCHANGED NotBuffered

\* reset_to_marker, with a marker that the caller got from the active buffer
BufferedResetToMarker(m) ==
    /\ buffered.phase = "free"
    /\ m \in buffered.markers[active_index(buffered.dba.current)]
    /\ buffered' = AfterBufferedResetToMarker(buffered, m)
    /\ UNCHANGED NotBuffered

\* reset_to_marker_copy, with a marker that the caller got from the active buffer
BufferedResetToMarkerCopy(m) ==
    /\ buffered.phase = "free"
    /\ m \in buffered.markers_copy[active_index(buffered.dba.current)]
    /\ buffered' = AfterBufferedResetToMarkerCopy(buffered, m)
    /\ UNCHANGED NotBuffered

BufferedSwapBuffers ==
    /\ buffered.phase = "free"
    /\ buffered' = AfterBufferedSwap(buffered)
    /\ UNCHANGED NotBuffered

NextBuffered ==
    \/ \E T \in BufferedTypes, panics \in BOOLEAN : BufferedAlloc(T, panics)
    \/ \E T \in BufferedTypes, panics \in BOOLEAN : BufferedAllocMut(T, panics)
    \/ BufferedMarker
    \/ BufferedMarkerCopy
    \/ BufferedReset
    \/ BufferedResetCopy
    \/ \E m \in buffered.markers[1] \cup buffered.markers[2] : BufferedResetToMarker(m)
    \/ \E m \in buffered.markers_copy[1] \cup buffered.markers_copy[2] :
           BufferedResetToMarkerCopy(m)
    \/ BufferedSwapBuffers

SpecBuffered == InitBuffered /\ [][NextBuffered]_vars

(***************************************************************************)
(* The frame loop of the documentation of DoubleBufferedAllocator:         *)
(*     loop { swap_buffers(); reset(); reset_copy(); allocations }         *)
(***************************************************************************)
InitFrames ==
    /\ NoStackAllocator
    /\ buffered = NewDoubleBufferedAllocator("frame")
    /\ ended = NoDoubleEndedStackAllocator
    /\ pool = NoPoolAllocator
    /\ ended_chunk = NoDoubleEndedMemoryChunk

\* One more swap of the frame loop has passed over every record.
Aged(rs) == [i \in DOMAIN rs |-> [rs[i] EXCEPT !.age = @ + 1]]

FrameSwapBuffers ==
    /\ buffered.phase = "frame"
    /\ buffered' = [AfterBufferedSwap(buffered) EXCEPT
                       !.phase = "swapped",
                       !.recs = << Aged(@[1]), Aged(@[2]) >>]
    /\ UNCHANGED NotBuffered

FrameReset ==
    /\ buffered.phase = "swapped"
    /\ buffered' = [AfterBufferedReset(buffered) EXCEPT !.phase = "reset"]
    /\ UNCHANGED NotBuffered

FrameResetCopy ==
    /\ buffered.phase = "reset"
    /\ buffered' = [AfterBufferedResetCopy(buffered) EXCEPT !.phase = "frame"]
    /\ UNCHANGED NotBuffered

FrameAlloc(T, panics) ==
    /\ buffered.phase = "frame"
    /\ buffered' = AfterBufferedAlloc(buffered, T, panics)
    /\ UNCHANGED NotBuffered

FrameMarker ==
    /\ buffered.phase = "frame"
    /\ buffered' = AfterBufferedMarker(buffered)
    /\ UNCHANGED NotBuffered

NextFrames ==
    \/ FrameSwapBuffers
    \/ FrameReset
    \/ FrameResetCopy
    \/ \E T \in BufferedTypes, panics \in BOOLEAN : FrameAlloc(T, panics)
    \/ FrameMarker

SpecFrames == InitFrames /\ [][NextFrames]_vars

(***************************************************************************)
(* The state machine of one DoubleEndedStackAllocator and its caller.      *)
(*                                                                         *)
(*   ended.dea           the DoubleEndedStackAllocator                     *)
(*   ended.recs          history, for each side: the records reserved in   *)
(*                       its drop chunk and not reset past                 *)
(*   ended.markers       for each side, the markers the caller holds       *)
(*   ended.markers_copy  the same for the copy chunks                      *)
(*   ended.last          the last operation, its side, its result and its  *)
(*                       walk                                              *)
(*                                                                         *)
(* An allocation is one step, whose closure returns or panics.             *)
(***************************************************************************)
Sides == {"resident", "temp"}
OtherSide(side) == IF side = "resident" THEN "temp" ELSE "resident"

EndedOutcome(op, side, ty, result, at, m, walk) ==
    [op |-> op, side |-> side, ty |-> ty, result |-> result, at |-> at, m |-> m,
     walk |-> walk]

NotEnded ==
    <<stack, pending, markers, markers_copy, recs, last, alive, call, copy_stack,
      buffered, pool, ended_chunk>>

InitEnded ==
    /\ NoStackAllocator
    /\ buffered = NoDoubleBufferedAllocator
    /\ pool = NoPoolAllocator
    /\ ended_chunk = NoDoubleEndedMemoryChunk
    /\ ended = [dea          |-> DoubleEndedStackAllocator_with_capacity(
                                     EndedCapacity, EndedCapacityCopy),
                recs         |-> [side \in Sides |-> <<>>],
                markers      |-> [side \in Sides |-> {}],
                markers_copy |-> [side \in Sides |-> {}],
                last         |-> EndedOutcome("with_capacity", "-", "-", "Ok", 0, 0,
                                              NoWalk)]

\* alloc_resident / alloc_mut_resident / alloc_temp / alloc_mut_temp: the
\* allocation of the StackAllocator of the side, whose closure returns or
\* panics.
AfterEndedAlloc(e, side, T, panics) ==
    LET sa == stack_of(e.dea, side)
    IN  IF T.needs_drop
        THEN LET r == alloc_non_copy_reserve(sa, T)
             IN  IF ~r.ok
                 THEN [e EXCEPT !.last = EndedOutcome("alloc", side, T.name,
                                             "OutOfMemoryError", 0, 0, NoWalk)]
                 ELSE [e EXCEPT
                          !.dea = with_stack_of(e.dea, side,
                                      IF panics THEN r.sa
                                      ELSE alloc_non_copy_complete(
                                               r.sa, r.type_description_start, T)),
                          !.recs[side] = Append(@,
                                      [type_description_start |-> r.type_description_start,
                                       start |-> r.start, end |-> r.end,
                                       type_description |-> get_type_description(T),
                                       state |-> IF panics THEN "aborted" ELSE "done"]),
                          !.last = EndedOutcome("alloc", side, T.name,
                                       IF panics THEN "Panic" ELSE "Ok",
                                       r.start, 0, NoWalk)]
        ELSE LET r == alloc_copy_inner(sa, T.size, T.align)
             IN  IF ~r.ok
                 THEN [e EXCEPT !.last = EndedOutcome("alloc", side, T.name,
                                             "OutOfMemoryError", 0, 0, NoWalk)]
                 ELSE [e EXCEPT
                          !.dea = with_stack_of(e.dea, side, r.sa),
                          !.last = EndedOutcome("alloc", side, T.name,
                                       IF panics THEN "Panic" ELSE "Ok",
                                       r.start, 0, NoWalk)]

AfterEndedMarker(e, side, m) ==
    [e EXCEPT !.markers[side] = @ \cup {m},
              !.last = EndedOutcome("marker", side, "-", "Ok", 0, m, NoWalk)]

AfterEndedMarkerCopy(e, side, m) ==
    [e EXCEPT !.markers_copy[side] = @ \cup {m},
              !.last = EndedOutcome("marker_copy", side, "-", "Ok", 0, m, NoWalk)]

\* What a reset or a rollback of the drop chunk of a side leaves.
AfterEndedWalk(e, op, side, m, r) ==
    LET f == marker(stack_of(r.dea, side))
    IN  [e EXCEPT !.dea = r.dea,
                  !.recs[side] = Below(@, f),
                  !.markers[side] = {x \in @ : x <= f},
                  !.last = EndedOutcome(op, side, "-", "Ok", 0, m, r.walk)]

\* What a reset or a rollback of the copy chunk of a side leaves.
AfterEndedCopy(e, op, side, m, dea) ==
    [e EXCEPT !.dea = dea,
              !.markers_copy[side] = {x \in @ : x <= m},
              !.last = EndedOutcome(op, side, "-", "Ok", 0, m, NoWalk)]

EndedAllocResident(T, panics) ==
    /\ ended' = AfterEndedAlloc(ended, "resident", T, panics)
    /\ UNCHANGED NotEnded

EndedAllocMutResident(T, panics) ==
    /\ ended' = AfterEndedAlloc(ended, "resident", T, panics)
    /\ UNCHANGED NotEnded

EndedMarkerResident ==
    /\ ended' = AfterEndedMarker(ended, "resident", marker_resident(ended.dea))
    /\ UNCHANGED NotEnded

EndedMarkerResidentCopy ==
    /\ ended' = AfterEndedMarkerCopy(ended, "resident", marker_resident_copy(ended.dea))
    /\ UNCHANGED NotEnded

EndedResetResident ==
    /\ ended' = AfterEndedWalk(ended, "reset", "resident", 0, reset_resident(ended.dea))
    /\ UNCHANGED NotEnded

EndedResetResidentCopy ==
    /\ ended' = AfterEndedCopy(ended, "reset_copy", "resident", 0,
                                reset_resident_copy(ended.dea))
    /\ UNCHANGED NotEnded

EndedResetToMarkerResident(m) ==
    /\ m \in ended.markers["resident"]
    /\ ended' = AfterEndedWalk(ended, "reset_to_marker", "resident", m,
                                reset_to_marker_resident(ended.dea, m))
    /\ UNCHANGED NotEnded

EndedResetToMarkerResidentCopy(m) ==
    /\ m \in ended.markers_copy["resident"]
    /\ ended' = AfterEndedCopy(ended, "reset_to_marker_copy", "resident", m,
                                reset_to_marker_resident_copy(ended.dea, m))
    /\ UNCHANGED NotEnded

EndedAllocTemp(T, panics) ==
    /\ ended' = AfterEndedAlloc(ended, "temp", T, panics)
    /\ UNCHANGED NotEnded

EndedAllocMutTemp(T, panics) ==
    /\ ended' = AfterEndedAlloc(ended, "temp", T, panics)
    /\ UNCHANGED NotEnded

EndedMarkerTemp ==
    /\ ended' = AfterEndedMarker(ended, "temp", marker_temp(ended.dea))
    /\ UNCHANGED NotEnded

EndedMarkerTempCopy ==
    /\ ended' = AfterEndedMarkerCopy(ended, "temp", marker_temp_copy(ended.dea))
    /\ UNCHANGED NotEnded

EndedResetTemp ==
    /\ ended' = AfterEndedWalk(ended, "reset", "temp", 0, reset_temp(ended.dea))
    /\ UNCHANGED NotEnded

EndedResetTempCopy ==
    /\ ended' = AfterEndedCopy(ended, "reset_copy", "temp", 0,
                                reset_temp_copy(ended.dea))
    /\ UNCHANGED NotEnded

EndedResetToMarkerTemp(m) ==
    /\ m \in ended.markers["temp"]
    /\ ended' = AfterEndedWalk(ended, "reset_to_marker", "temp", m,
                                reset_to_marker_temp(ended.dea, m))
    /\ UNCHANGED NotEnded

EndedResetToMarkerTempCopy(m) ==
    /\ m \in ended.markers_copy["temp"]
    /\ ended' = AfterEndedCopy(ended, "reset_to_marker_copy", "temp", m,
                                reset_to_marker_temp_copy(ended.dea, m))
    /\ UNCHANGED NotEnded

NextEnded ==
    \/ \E T \in BufferedTypes, panics \in BOOLEAN : EndedAllocResident(T, panics)
    \/ \E T \in BufferedTypes, panics \in BOOLEAN : EndedAllocMutResident(T, panics)
    \/ EndedMarkerResident
    \/ EndedMarkerResidentCopy
    \/ EndedResetResident
    \/ EndedResetResidentCopy
    \/ \E m \in ended.markers["resident"] : EndedResetToMarkerResident(m)
    \/ \E m \in ended.markers_copy["resident"] : EndedResetToMarkerResidentCopy(m)
    \/ \E T \in BufferedTypes, panics \in BOOLEAN : EndedAllocTemp(T, panics)
    \/ \E T \in BufferedTypes, panics \in BOOLEAN : EndedAllocMutTemp(T, panics)
    \/ EndedMarkerTemp
    \/ EndedMarkerTempCopy
    \/ EndedResetTemp
    \/ EndedResetTempCopy
    \/ \E m \in ended.markers["temp"] : EndedResetToMarkerTemp(m)
    \/ \E m \in ended.markers_copy["temp"] : EndedResetToMarkerTempCopy(m)

SpecEnded == InitEnded /\ [][NextEnded]_vars

(***************************************************************************)
(* The state machine of one PoolAllocator and the pointers its caller      *)
(* holds.                                                                  *)
(*                                                                         *)
(*   pool.pa       the PoolAllocator                                       *)
(*   pool.uniques  the live UniquePtr values {ptr, chunk_index}            *)
(*   pool.shareds  for each item, the number of live SharedPtr to it       *)
(*   pool.weaks    for each item, the number of live WeakPtr made from the *)
(*                 value that is now in it                                 *)
(*   pool.stale    for each item, the number of live WeakPtr made from a   *)
(*                 value of it that has since been destroyed               *)
(*   pool.last     the last operation, its item, its result, whether the   *)
(*                 initializer ran, the walk of its destroy, and, for an   *)
(*                 allocation, whether it follows the drop that gave an    *)
(*                 item back to a pool that had none available             *)
(*                                                                         *)
(* An allocation is one step, whose initializer returns or panics. The     *)
(* decrement of a weak cell that holds 0 overflows; it is left out.        *)
(***************************************************************************)
Items == 0..(NbItem - 1)

Monster == CHOOSE T \in DropTypes : T.name = "Monster"

PoolItemSizes == {ItemSize, ItemSize - 16}

PoolOutcome(op, ty, item, result, ran, walk) ==
    [op |-> op, ty |-> ty, item |-> item, result |-> result, ran |-> ran,
     walk |-> walk, refill |-> FALSE]

\* The last operation was the drop of a UniquePtr, or of the last SharedPtr
\* of a value, in a pool whose first_available was None.
JustReleased(p) ==
    /\ \/ p.last.op = "drop_unique"
       \/ p.last.op = "drop_shared" /\ p.last.result = "Released"
    /\ first_available(p.pa) = Some(p.last.item)
    /\ p.pa.storage[p.last.item].next = None

NotPool ==
    <<stack, pending, markers, markers_copy, recs, last, alive, call, copy_stack,
      buffered, ended, ended_chunk>>

InitPool ==
    /\ NoStackAllocator
    /\ buffered = NoDoubleBufferedAllocator
    /\ ended = NoDoubleEndedStackAllocator
    /\ ended_chunk = NoDoubleEndedMemoryChunk
    /\ \E size_item \in PoolItemSizes :
           pool = [pa      |-> PoolAllocator_new(NbItem, size_item),
                   uniques |-> {},
                   shareds |-> [i \in Items |-> 0],
                   weaks   |-> [i \in Items |-> 0],
                   stale   |-> [i \in Items |-> 0],
                   last    |-> PoolOutcome("new", "-", 0, "Ok", FALSE, NoWalk)]

\* What alloc_unique leaves: on Ok the caller holds one more UniquePtr.
AfterAllocUnique(p, op, r) ==
    [p EXCEPT !.pa = r.pa,
              !.uniques = IF r.result = "Ok"
                          THEN @ \cup {[ptr |-> r.start, chunk_index |-> r.index]}
                          ELSE @,
              !.last = [PoolOutcome(op, Monster.name, r.index, r.result, r.ran, NoWalk)
                           EXCEPT !.refill = JustReleased(p)]]

PoolAllocUnique(panics) ==
    /\ pool' = AfterAllocUnique(pool, "alloc_unique",
                                alloc_unique(pool.pa, Monster, panics))
    /\ UNCHANGED NotPool

PoolAllocShared(panics) ==
    /\ LET r == alloc_shared(pool.pa, SharedUniqueMonster, panics)
       IN  pool' = [pool EXCEPT
                       !.pa = r.pa,
                       !.shareds[r.index] = IF r.result = "Ok" THEN 1 ELSE @,
                       !.last = [PoolOutcome("alloc_shared", SharedUniqueMonster.name,
                                             r.index, r.result, r.ran, NoWalk)
                                 EXCEPT !.refill = JustReleased(pool)]]
    /\ UNCHANGED NotPool

\* impl Clone for UniquePtr: alloc_unique(|| clone).unwrap()
UniquePtrClone(u) ==
    /\ u \in pool.uniques
    /\ LET r == alloc_unique(pool.pa, Monster, FALSE)
       IN  pool' = AfterAllocUnique(pool, "clone_unique",
                       [r EXCEPT !.result = IF @ = "Ok" THEN "Ok" ELSE "Panic"])
    /\ UNCHANGED NotPool

UniquePtrDrop(u) ==
    /\ u \in pool.uniques
    /\ LET r == UniquePtr_drop(pool.pa, u.chunk_index)
       IN  pool' = [pool EXCEPT
                       !.pa = r.pa,
                       !.uniques = @ \ {u},
                       !.last = PoolOutcome("drop_unique", "-", u.chunk_index, "Ok",
                                            FALSE, r.walk)]
    /\ UNCHANGED NotPool

\* The numbers of SharedPtr and of WeakPtr the caller holds.
RECURSIVE Sum(_, _)
Sum(f, S) ==
    IF S = {} THEN 0
    ELSE LET i == CHOOSE x \in S : TRUE IN f[i] + Sum(f, S \ {i})

HeldShared == Sum(pool.shareds, Items)
HeldWeak == Sum(pool.weaks, Items) + Sum(pool.stale, Items)

\* Whether the caller holds a WeakPtr of the kind to item i.
HoldsWeak(i, is_stale) == IF is_stale THEN pool.stale[i] >= 1 ELSE pool.weaks[i] >= 1

SharedPtrClone(i) ==
    /\ pool.shareds[i] >= 1
    /\ HeldShared < MaxHandles
    /\ pool' = [pool EXCEPT
                   !.pa = inc_strong(pool.pa, i),
                   !.shareds[i] = @ + 1,
                   !.last = PoolOutcome("clone_shared", "-", i, "Ok", FALSE, NoWalk)]
    /\ UNCHANGED NotPool

SharedPtrDowngrade(i) ==
    /\ pool.shareds[i] >= 1
    /\ HeldWeak < MaxHandles
    /\ pool' = [pool EXCEPT
                   !.pa = inc_weak(pool.pa, i),
                   !.weaks[i] = @ + 1,
                   !.last = PoolOutcome("downgrade", "-", i, "Ok", FALSE, NoWalk)]
    /\ UNCHANGED NotPool

\* The drop of a SharedPtr; when it was the last one, the WeakPtr made from
\* the value are WeakPtr of a destroyed value from now on.
SharedPtrDrop(i) ==
    /\ pool.shareds[i] >= 1
    /\ LET r == SharedPtr_drop(pool.pa, i)
           released == strong(r.pa, i) = 0
       IN  pool' = [pool EXCEPT
                       !.pa = r.pa,
                       !.shareds[i] = @ - 1,
                       !.weaks[i] = IF released THEN 0 ELSE @,
                       !.stale[i] = IF released THEN @ + pool.weaks[i] ELSE @,
                       !.last = PoolOutcome("drop_shared", "-", i,
                                    IF released THEN "Released" ELSE "Ok",
                                    FALSE, r.walk)]
    /\ UNCHANGED NotPool

WeakPtrUpgrade(i, is_stale) ==
    /\ HoldsWeak(i, is_stale)
    /\ HeldShared < MaxHandles
    /\ LET r == WeakPtr_upgrade(pool.pa, i)
       IN  pool' = [pool EXCEPT
                       !.pa = r.pa,
                       !.shareds[i] = IF r.some THEN @ + 1 ELSE @,
                       !.last = PoolOutcome("upgrade", "-", i,
                                    IF r.some THEN "Some" ELSE "None", FALSE, NoWalk)]
    /\ UNCHANGED NotPool

WeakPtrClone(i, is_stale) ==
    /\ HoldsWeak(i, is_stale)
    /\ HeldWeak < MaxHandles
    /\ pool' = [pool EXCEPT
                   !.pa = inc_weak(pool.pa, i),
                   !.weaks[i] = IF is_stale THEN @ ELSE @ + 1,
                   !.stale[i] = IF is_stale THEN @ + 1 ELSE @,
                   !.last = PoolOutcome("clone_weak", "-", i, "Ok", FALSE, NoWalk)]
    /\ UNCHANGED NotPool

WeakPtrDrop(i, is_stale) ==
    /\ HoldsWeak(i, is_stale)
    /\ weak(pool.pa, i) >= 1
    /\ pool' = [pool EXCEPT
                   !.pa = dec_weak(pool.pa, i),
                   !.weaks[i] = IF is_stale THEN @ ELSE @ - 1,
                   !.stale[i] = IF is_stale THEN @ - 1 ELSE @,
                   !.last = PoolOutcome("drop_weak", "-", i, "Ok", FALSE, NoWalk)]
    /\ UNCHANGED NotPool

NextPool ==
    \/ \E panics \in BOOLEAN : PoolAllocUnique(panics)
    \/ \E panics \in BOOLEAN : PoolAllocShared(panics)
    \/ \E u \in pool.uniques : UniquePtrClone(u)
    \/ \E u \in pool.uniques : UniquePtrDrop(u)
    \/ \E i \in Items : SharedPtrClone(i)
    \/ \E i \in Items : SharedPtrDowngrade(i)
    \/ \E i \in Items : SharedPtrDrop(i)
    \/ \E i \in Items, is_stale \in BOOLEAN : WeakPtrUpgrade(i, is_stale)
    \/ \E i \in Items, is_stale \in BOOLEAN : WeakPtrClone(i, is_stale)
    \/ \E i \in Items, is_stale \in BOOLEAN : WeakPtrDrop(i, is_stale)

SpecPool == InitPool /\ [][NextPool]_vars

(***************************************************************************)
(* utils::round_up on its own: the arguments are drawn from every base up  *)
(* to MaxBase and every power of two an alignment can be, and the call     *)
(* returns what round_up computes.                                         *)
(***************************************************************************)
Alignments == {1, 2, 4, 8, 16}

NoAllocator ==
    /\ stack = StackAllocator_with_capacity(0, 0)
    /\ pending = <<>>
    /\ markers = {}
    /\ markers_copy = {}
    /\ recs = <<>>
    /\ last = Outcome("with_capacity", "-", "Ok", 0, 0, NoWalk, Snapshot)
    /\ alive = TRUE

InitRoundUp ==
    /\ NoAllocator
    /\ copy_stack = NoStackAllocatorCopy
    /\ NoOthers
    /\ \E base \in 0..MaxBase, align \in Alignments :
           call = [fn |-> "round_up", base |-> base, align |-> align,
                   returned |-> FALSE, result |-> 0]

RoundUpReturns ==
    /\ call.fn = "round_up"
    /\ ~call.returned
    /\ call' = [call EXCEPT !.returned = TRUE,
                            !.result = round_up(call.base, call.align)]
    /\ UNCHANGED <<stack, pending, markers, markers_copy, recs, last, alive,
                   copy_stack, others>>

NextRoundUp == RoundUpReturns

SpecRoundUp == InitRoundUp /\ [][NextRoundUp]_vars

(***************************************************************************)
(* utils::bitpack_type_description_ptr and un_bitpack_type_description_ptr *)
(* on their own: a pointer and a flag are packed, the word is unpacked and *)
(* what was unpacked is packed again.                                      *)
(***************************************************************************)
InitBitpack ==
    /\ NoAllocator
    /\ copy_stack = NoStackAllocatorCopy
    /\ NoOthers
    /\ \E p \in 0..MaxPointer, is_done \in BOOLEAN :
           call = [fn |-> "bitpack", p |-> p, is_done |-> is_done, step |-> 0,
                   packed |-> 0,
                   unpacked |-> [type_description |-> 0, is_done |-> FALSE],
                   repacked |-> 0]

BitpackReturns ==
    /\ call.fn = "bitpack"
    /\ call.step = 0
    /\ call' = [call EXCEPT !.step = 1,
                            !.packed = bitpack_type_description_ptr(call.p, call.is_done)]
    /\ UNCHANGED <<stack, pending, markers, markers_copy, recs, last, alive,
                   copy_stack, others>>

UnBitpackReturns ==
    /\ call.fn = "bitpack"
    /\ call.step = 1
    /\ call' = [call EXCEPT !.step = 2,
                            !.unpacked = un_bitpack_type_description_ptr(call.packed)]
    /\ UNCHANGED <<stack, pending, markers, markers_copy, recs, last, alive,
                   copy_stack, others>>

RepackReturns ==
    /\ call.fn = "bitpack"
    /\ call.step = 2
    /\ call' = [call EXCEPT !.step = 3,
                            !.repacked = bitpack_type_description_ptr(
                                             call.unpacked.type_description,
                                             call.unpacked.is_done)]
    /\ UNCHANGED <<stack, pending, markers, markers_copy, recs, last, alive,
                   copy_stack, others>>

NextBitpack ==
    \/ BitpackReturns
    \/ UnBitpackReturns
    \/ RepackReturns

SpecBitpack == InitBitpack /\ [][NextBitpack]_vars

(***************************************************************************)
(* The StackAllocator with types of an alignment below, at and above the   *)
(* word's and of sizes that are multiples of it: the same operations.      *)
(***************************************************************************)
SizedAlignments == {1, 8, 16}

SizedTypes ==
    { [name |-> "Sized", size |-> k * a, align |-> a, needs_drop |-> d] :
          k \in 0..MaxUnits, a \in SizedAlignments, d \in BOOLEAN }

SizedCapacities == { <<SizedCapacity, 0>>, <<0, SizedCapacityCopy>> }

InitSized ==
    \E c \in SizedCapacities :
        /\ stack = StackAllocator_with_capacity(c[1], c[2])
        /\ pending = <<>>
        /\ markers = {}
        /\ markers_copy = {}
        /\ recs = <<>>
        /\ last = Outcome("with_capacity", "-", "Ok", 0, 0, NoWalk, Snapshot)
        /\ alive = TRUE
        /\ call = [fn |-> "none"]
        /\ copy_stack = NoStackAllocatorCopy
        /\ NoOthers

NextSized ==
    \/ \E T \in SizedTypes : Alloc(T)
    \/ \E T \in SizedTypes : AllocMut(T)
    \/ ClosureReturns
    \/ Marker
    \/ MarkerCopy
    \/ Reset
    \/ ResetCopy
    \/ \E m \in markers : ResetToMarker(m)
    \/ \E m \in markers_copy : ResetToMarkerCopy(m)
    \/ DropAllocator

SpecSized == InitSized /\ [][NextSized]_vars

(***************************************************************************)
(* The StackAllocator whose closures allocate in the allocator they          *)
(* initialize an object of.                                                  *)
(***************************************************************************)
NestedCapacities == { <<MaxCapacity - 6, 0>>, <<MixCapacity, MixCapacityCopy>> }

InitNested ==
    \E c \in NestedCapacities :
        /\ stack = StackAllocator_with_capacity(c[1], c[2])
        /\ pending = <<>>
        /\ markers = {}
        /\ markers_copy = {}
        /\ recs = <<>>
        /\ last = Outcome("with_capacity", "-", "Ok", 0, 0, NoWalk, Snapshot)
        /\ alive = TRUE
        /\ call = [fn |-> "none"]
        /\ copy_stack = NoStackAllocatorCopy
        /\ NoOthers

\* A running closure calls alloc or alloc_mut of the allocator: the borrow of
\* alloc_non_copy_inner is released before op() is called.
AllocInClosure(T) ==
    /\ alive
    /\ pending # <<>>
    /\ Len(pending) < MaxDepth
    /\ IF T.needs_drop THEN AllocNonCopyStart("alloc", T) ELSE AllocCopyStart("alloc", T)

NextNested ==
    \/ \E T \in Types : Alloc(T)
    \/ \E T \in Types : AllocInClosure(T)
    \/ ClosureReturns
    \/ ClosurePanics
    \/ Marker
    \/ Reset
    \/ \E m \in markers : ResetToMarker(m)
    \/ DropAllocator

SpecNested == InitNested /\ [][NextNested]_vars

(***************************************************************************)
(* The StackAllocator whose objects have destructors that may panic.         *)
(***************************************************************************)
\* destroy_to_marker when the k-th call of drop_glue panics: the walk is left
\* in the middle of the record of that call.
destroy_to_marker_panicking(chunk, m, k) ==
    LET walk == destroy_to_marker(chunk, m)
        visited == SelectSeq(walk.visited, LAMBDA v : v < walk.drops[k].at)
    IN  [walk EXCEPT !.drops = SubSeq(@, 1, k),
                     !.visited = visited,
                     !.stop = visited[Len(visited)]]

\* The records whose destructor a walk has called.
MarkDropped(rs, walk) ==
    [i \in 1..Len(rs) |->
        IF \E j \in DOMAIN walk.drops : walk.drops[j].at = rs[i].start
        THEN [rs[i] EXCEPT !.state = "dropped"] ELSE rs[i]]

InitPanic ==
    /\ stack = StackAllocator_with_capacity(MaxCapacity - 6, 0)
    /\ pending = <<>>
    /\ markers = {}
    /\ markers_copy = {}
    /\ recs = <<>>
    /\ last = Outcome("with_capacity", "-", "Ok", 0, 0, NoWalk, Snapshot)
    /\ alive = TRUE
    /\ call = [fn |-> "none"]
    /\ copy_stack = NoStackAllocatorCopy
    /\ NoOthers

\* StackAllocator::reset_to_marker when a destructor panics: the panic leaves
\* destroy_to_marker and reset_to_marker before set_fill(marker).
ResetToMarkerPanics(m) ==
    /\ alive
    /\ pending = <<>>
    /\ m \in markers
    /\ \E k \in DOMAIN destroy_to_marker(stack.storage, m).drops :
           LET walk == destroy_to_marker_panicking(stack.storage, m, k)
           IN  /\ last' = Outcome("reset_to_marker", "-", "Panic", 0, m, walk, Snapshot)
               /\ recs' = MarkDropped(recs, walk)
    /\ UNCHANGED <<stack, pending, markers, markers_copy, alive, call, copy_stack, others>>

\* StackAllocator::reset when a destructor panics: the panic leaves destroy
\* and reset before set_fill(0).
ResetPanics ==
    /\ alive
    /\ pending = <<>>
    /\ \E k \in DOMAIN destroy(stack.storage).drops :
           LET walk == destroy_to_marker_panicking(stack.storage, 0, k)
           IN  /\ last' = Outcome("reset", "-", "Panic", 0, 0, walk, Snapshot)
               /\ recs' = MarkDropped(recs, walk)
    /\ UNCHANGED <<stack, pending, markers, markers_copy, alive, call, copy_stack, others>>

NextPanic ==
    \/ \E T \in DropTypes : Alloc(T)
    \/ ClosureReturns
    \/ Marker
    \/ Reset
    \/ ResetPanics
    \/ \E m \in markers : ResetToMarker(m)
    \/ \E m \in markers : ResetToMarkerPanics(m)
    \/ DropAllocator

SpecPanic == InitPanic /\ [][NextPanic]_vars

(***************************************************************************)
(* The DoubleEndedStackAllocator built with every pair of capacities.        *)
(***************************************************************************)
InitHalves ==
    \E c \in 0..MaxRequest, cc \in 0..MaxRequest :
        /\ stack = StackAllocator_with_capacity(0, 0)
        /\ pending = <<>>
        /\ markers = {}
        /\ markers_copy = {}
        /\ recs = <<>>
        /\ last = Outcome("with_capacity", "-", "Ok", 0, 0, NoWalk, Snapshot)
        /\ alive = TRUE
        /\ call = [fn |-> "with_capacity", capacity |-> c, capacity_copy |-> cc]
        /\ copy_stack = NoStackAllocatorCopy
        /\ buffered = NoDoubleBufferedAllocator
        /\ pool = NoPoolAllocator
        /\ ended_chunk = NoDoubleEndedMemoryChunk
        /\ ended = [dea          |-> DoubleEndedStackAllocator_with_capacity(c, cc),
                    recs         |-> [side \in Sides |-> <<>>],
                    markers      |-> [side \in Sides |-> {}],
                    markers_copy |-> [side \in Sides |-> {}],
                    last         |-> EndedOutcome("with_capacity", "-", "-", "Ok", 0, 0,
                                                  NoWalk)]

NextHalves ==
    \/ \E T \in BufferedTypes, panics \in BOOLEAN : EndedAllocResident(T, panics)
    \/ \E T \in BufferedTypes, panics \in BOOLEAN : EndedAllocTemp(T, panics)
    \/ EndedMarkerResident
    \/ EndedMarkerResidentCopy
    \/ EndedMarkerTemp
    \/ EndedMarkerTempCopy

SpecHalves == InitHalves /\ [][NextHalves]_vars

(***************************************************************************)
(* DoubleEndedMemoryChunk (double_ended_memory_chunk.rs): one storage with   *)
(* a fill for the half that starts at the bottom and a fill for the half     *)
(* that starts at the middle.  words maps offsets from the start of the      *)
(* storage to the packed words written there.                                *)
(*   ended_chunk.chunk  the DoubleEndedMemoryChunk                           *)
(*   ended_chunk.recs   history: the records written in each half and not    *)
(*                      reset, with offsets from the start of the storage    *)
(*   ended_chunk.last   the last operation: its half, the walks it made and  *)
(*                      the records there were before it                     *)
(***************************************************************************)
ChunkStartPosition == {"Bottom", "Middle"}

DoubleEndedMemoryChunk_new(size) ==
    [cap |-> size, fill_middle |-> size \div 2, fill_bottom |-> 0, words |-> <<>>]

DoubleEndedMemoryChunk_fill(c, chunk_start_position) ==
    IF chunk_start_position = "Bottom" THEN c.fill_bottom ELSE c.fill_middle

DoubleEndedMemoryChunk_set_fill(c, chunk_start_position, first_unused_byte) ==
    IF chunk_start_position = "Middle"
    THEN [c EXCEPT !.fill_middle = first_unused_byte]
    ELSE [c EXCEPT !.fill_bottom = first_unused_byte]

DoubleEndedMemoryChunk_capacity(c) == c.cap

\* DoubleEndedMemoryChunk::as_ptr, as an offset from the start of the storage.
DoubleEndedMemoryChunk_as_ptr(c, chunk_start_position) ==
    IF chunk_start_position = "Bottom" THEN 0 ELSE c.cap \div 2

NoEndWalk == [reads |-> <<>>, drops |-> <<>>, uninit_read |-> FALSE, stop |-> 0]

\* The loop of destroy_end_to_marker: the offsets (from the start of the
\* storage) of the words it reads, the drop_glue calls it makes, and whether it
\* read a word that was never written, where it stops.
RECURSIVE destroy_end_walk(_, _, _, _, _)
destroy_end_walk(c, storage_start, fill, index, acc) ==
    IF ~(index < fill) THEN [acc EXCEPT !.stop = index]
    ELSE IF storage_start + index \notin DOMAIN c.words
         THEN [acc EXCEPT !.reads = Append(@, storage_start + index),
                          !.uninit_read = TRUE, !.stop = index]
    ELSE
        LET unpacked == un_bitpack_type_description_ptr(c.words[storage_start + index])
            type_description == unpacked.type_description
            is_done == unpacked.is_done
            size == TypeDescription(type_description).size
            alignment == TypeDescription(type_description).alignment
            after_type_description == index + WordSize
            start == round_up(after_type_description, alignment)
            next == round_up(start + size, WordAlign)
            glue == [at |-> storage_start + start, type_description |-> type_description]
        IN  destroy_end_walk(c, storage_start, fill, next,
                [acc EXCEPT !.reads = Append(@, storage_start + index),
                            !.drops = IF is_done THEN Append(@, glue) ELSE @])

\* DoubleEndedMemoryChunk::destroy_end_to_marker
destroy_end_to_marker(c, chunk_start_position, from) ==
    destroy_end_walk(c, DoubleEndedMemoryChunk_as_ptr(c, chunk_start_position),
                     DoubleEndedMemoryChunk_fill(c, chunk_start_position), from,
                     NoEndWalk)

\* DoubleEndedMemoryChunk::destroy_end
destroy_end(c, chunk_start_position) == destroy_end_to_marker(c, chunk_start_position, 0)

\* DoubleEndedMemoryChunk::destroy_all: the walk of each half.
destroy_all(c) == [position \in ChunkStartPosition |-> destroy_end(c, position)]

NotChunk ==
    <<stack, pending, markers, markers_copy, recs, last, alive, call, copy_stack,
      buffered, ended, pool>>

ChunkOutcome(op, position, result, walks) ==
    [op |-> op, position |-> position, result |-> result, walks |-> walks,
     recs |-> ended_chunk.recs]

NoEndWalks == [position \in ChunkStartPosition |-> NoEndWalk]

InitChunk ==
    /\ NoStackAllocator
    /\ buffered = NoDoubleBufferedAllocator
    /\ ended = NoDoubleEndedStackAllocator
    /\ pool = NoPoolAllocator
    /\ ended_chunk =
           [chunk |-> DoubleEndedMemoryChunk_new(ChunkSize),
            recs  |-> [position \in ChunkStartPosition |-> <<>>],
            last  |-> [op |-> "new", position |-> "-", result |-> "Ok",
                       walks |-> NoEndWalks,
                       recs |-> [position \in ChunkStartPosition |-> <<>>]]]

\* The end of the half of a position, as an offset from its as_ptr.
HalfSize(c, chunk_start_position) ==
    IF chunk_start_position = "Bottom"
    THEN DoubleEndedMemoryChunk_capacity(c) \div 2
    ELSE DoubleEndedMemoryChunk_capacity(c) - DoubleEndedMemoryChunk_capacity(c) \div 2

\* An allocation of a droppable object in a half.  No allocator of the
\* repository uses the chunk: the allocation is the one StackAllocator makes in
\* a MemoryChunk (alloc_non_copy_inner, alloc_non_copy), made with fill, as_ptr
\* and set_fill of the position and kept inside the half.
ChunkAlloc(position, T, panics) ==
    LET c == ended_chunk.chunk
        storage_start == DoubleEndedMemoryChunk_as_ptr(c, position)
        l == non_copy_layout(DoubleEndedMemoryChunk_fill(c, position), T.size, T.align)
    IN  /\ ended_chunk' =
               IF l.end > HalfSize(c, position)
               THEN [ended_chunk EXCEPT
                        !.last = ChunkOutcome("alloc", position, "OutOfMemoryError",
                                              NoEndWalks)]
               ELSE [ended_chunk EXCEPT
                        !.chunk = [DoubleEndedMemoryChunk_set_fill(c, position, l.end)
                                      EXCEPT !.words =
                                          write_word(c, storage_start + l.type_description_start,
                                              bitpack_type_description_ptr(
                                                  get_type_description(T), ~panics)).words],
                        !.recs[position] = Append(@,
                            [type_description_start |-> storage_start + l.type_description_start,
                             start |-> storage_start + l.start,
                             end |-> storage_start + l.end,
                             type_description |-> get_type_description(T),
                             state |-> IF panics THEN "aborted" ELSE "done"]),
                        !.last = ChunkOutcome("alloc", position,
                                     IF panics THEN "Panic" ELSE "Ok", NoEndWalks)]
        /\ UNCHANGED NotChunk

\* destroy_end(position) then set_fill(position, 0), as StackAllocator::reset
\* does with a MemoryChunk.
ChunkReset(position) ==
    LET c == ended_chunk.chunk
    IN  /\ ended_chunk' =
               [ended_chunk EXCEPT
                   !.chunk = DoubleEndedMemoryChunk_set_fill(c, position, 0),
                   !.recs[position] = <<>>,
                   !.last = ChunkOutcome("reset", position, "Ok",
                                [NoEndWalks EXCEPT ![position] = destroy_end(c, position)])]
        /\ UNCHANGED NotChunk

\* DoubleEndedMemoryChunk::destroy_all, when the chunk is given up.
ChunkDestroyAll ==
    /\ ended_chunk.last.op # "destroy_all"
    /\ ended_chunk' =
           [ended_chunk EXCEPT
               !.last = ChunkOutcome("destroy_all", "-", "Ok",
                                     destroy_all(ended_chunk.chunk))]
    /\ UNCHANGED NotChunk

NextChunk ==
    \/ \E position \in ChunkStartPosition, T \in DropTypes, panics \in BOOLEAN :
           ChunkAlloc(position, T, panics)
    \/ \E position \in ChunkStartPosition : ChunkReset(position)
    \/ ChunkDestroyAll

SpecChunk == InitChunk /\ [][NextChunk]_vars

(***************************************************************************)
(* Properties.                                                             *)
(***************************************************************************)
TypeOf(name) == CHOOSE T \in Types : T.name = name

IsAlloc == last.op = "alloc"
IsDropAlloc == IsAlloc /\ TypeOf(last.ty).needs_drop
IsCopyAlloc == IsAlloc /\ ~TypeOf(last.ty).needs_drop

\* The operations that walk the drop chunk, and the offset their walk starts at.
IsWalk == last.op \in {"reset", "reset_to_marker", "drop"}
WalkStart == IF last.op = "reset_to_marker" THEN last.m ELSE 0

\* The records whose closure returned and whose start lies in [m, fill before
\* the operation), in the order of their allocation.
AllocatedFrom(m) ==
    SelectSeq(last.before.recs,
              LAMBDA r : /\ r.state = "done"
                         /\ r.type_description_start >= m
                         /\ r.type_description_start < last.before.fill)

\* C1: reset_to_marker(m), with a marker the allocator returned and no reset has
\* passed, calls the destructor of exactly the droppable objects allocated with
\* record start in [m, fill before the call), once each, and of no object whose
\* record starts below m; the number of calls is the number of those objects.
C1_ResetToMarkerDropsExactly ==
    last.op = "reset_to_marker" =>
        LET expected == AllocatedFrom(last.m)
            drops == last.walk.drops
        IN  /\ Len(drops) = Len(expected)
            /\ \A i \in DOMAIN expected :
                   Cardinality({j \in DOMAIN drops :
                       /\ drops[j].at = expected[i].start
                       /\ drops[j].type_description = expected[i].type_description}) = 1
            /\ \A j \in DOMAIN drops : \A i \in DOMAIN last.before.recs :
                   last.before.recs[i].type_description_start < last.m
                       => drops[j].at # last.before.recs[i].start

\* A rollback to a marker above a live object that drops an object above it.
C1_Witness ==
    /\ last.op = "reset_to_marker"
    /\ Len(last.walk.drops) >= 1
    /\ \E i \in DOMAIN last.before.recs :
           /\ last.before.recs[i].state = "done"
           /\ last.before.recs[i].type_description_start < last.m

\* C2: in every state reached by checked allocations (successful or not), marker
\* queries, resets and rollbacks to markers the allocator returned,
\* 0 <= fill <= capacity for the drop chunk and for the copy chunk.
C2_FillWithinCapacity ==
    /\ 0 <= stack.storage.fill
    /\ stack.storage.fill <= stack.storage.cap
    /\ 0 <= stack.storage_copy.fill
    /\ stack.storage_copy.fill <= stack.storage_copy.cap

\* An allocation refused for lack of room while both chunks hold something.
C2_Witness ==
    /\ IsAlloc
    /\ last.result = "OutOfMemoryError"
    /\ marker(stack) > 0
    /\ marker_copy(stack) > 0

\* C3: when the closure of a droppable allocation panics, the packed word of the
\* record keeps initialized = false, and no walk (reset, reset_to_marker, drop of
\* the allocator) calls the drop function for that slot.
C3_AbortedSlotNeverDropped ==
    /\ \A i \in DOMAIN recs :
           recs[i].state = "aborted" =>
               /\ recs[i].type_description_start \in DOMAIN stack.storage.words
               /\ ~un_bitpack_type_description_ptr(
                      stack.storage.words[recs[i].type_description_start]).is_done
    /\ IsWalk =>
           \A j \in DOMAIN last.walk.drops : \A i \in DOMAIN last.before.recs :
               last.before.recs[i].state = "aborted"
                   => last.walk.drops[j].at # last.before.recs[i].start

\* A walk that steps over the slot of an allocation whose closure panicked.
C3_Witness ==
    /\ IsWalk
    /\ \E i \in DOMAIN last.before.recs :
           /\ last.before.recs[i].state = "aborted"
           /\ \E k \in DOMAIN last.walk.visited :
                  last.walk.visited[k] = last.before.recs[i].type_description_start

C5_DropsInAllocationOrder ==
    IsWalk =>
        LET expected == AllocatedFrom(WalkStart)
            drops == last.walk.drops
        IN  /\ Len(drops) = Len(expected)
            /\ \A i \in DOMAIN drops : drops[i].at = expected[i].start
            /\ \A i \in DOMAIN drops : \A j \in DOMAIN drops :
                   i < j => drops[i].at < drops[j].at

\* A walk that drops two objects of different types.
C5_Witness ==
    /\ IsWalk
    /\ Len(last.walk.drops) >= 2
    /\ last.walk.drops[1].type_description # last.walk.drops[2].type_description

\* The end offset of section 4.3 for type T at fill, with round_up as utils.rs
\* computes it.
EndOffset(T, fill) ==
    IF T.needs_drop
    THEN round_up(round_up(fill + WordSize, T.align) + T.size, WordAlign)
    ELSE round_up(fill, T.align) + T.size

SelectedCapacity(T) == IF T.needs_drop THEN capacity(stack) ELSE capacity_copy(stack)
SelectedFillBefore(T) == IF T.needs_drop THEN last.before.fill ELSE last.before.fill_copy

C7_ReturnedOffsetAligned ==
    (IsAlloc /\ last.result = "Ok") => last.at % TypeOf(last.ty).align = 0

\* A successful allocation of an aligned type from a fill that is not aligned.
C7_Witness ==
    /\ IsAlloc
    /\ last.result = "Ok"
    /\ TypeOf(last.ty).align = 4
    /\ SelectedFillBefore(TypeOf(last.ty)) % 4 # 0

\* C8 as stated: for every base and every power-of-two align, round_up(base,
\* align) is the smallest integer x >= base with x mod align = 0; when base is a
\* multiple of align it is base.
C8_RoundUpIsSmallestMultiple ==
    (call.fn = "round_up" /\ call.returned) =>
        /\ call.result >= call.base
        /\ call.result % call.align = 0
        /\ \A x \in call.base..(call.result - 1) : x % call.align # 0

\* C9: right after reset() marker() = 0, after reset_copy() marker_copy() = 0,
\* after reset_to_marker(m) marker() = m, after reset_to_marker_copy(m)
\* marker_copy() = m; a new allocator has both markers at 0.
C9_MarkerAfterReset ==
    /\ last.op = "reset" => marker(stack) = 0
    /\ last.op = "reset_copy" => marker_copy(stack) = 0
    /\ last.op = "reset_to_marker" => marker(stack) = last.m
    /\ last.op = "reset_to_marker_copy" => marker_copy(stack) = last.m
    /\ last.op = "with_capacity" => (marker(stack) = 0 /\ marker_copy(stack) = 0)

\* A rollback of a chunk that holds something to a marker above its bottom.
C9_Witness ==
    /\ last.op = "reset_to_marker"
    /\ last.m > 0
    /\ last.before.fill > last.m

\* C10: the two chunks are independent: an allocation of a droppable type leaves
\* marker_copy() as it was, an allocation of a type that needs no drop leaves
\* marker() as it was, reset() and reset_to_marker leave marker_copy() as it was,
\* reset_copy() and reset_to_marker_copy leave marker() as it was.
C10_ChunksIndependent ==
    /\ IsDropAlloc => marker_copy(stack) = last.before.fill_copy
    /\ IsCopyAlloc => marker(stack) = last.before.fill
    /\ last.op \in {"reset", "reset_to_marker"}
           => marker_copy(stack) = last.before.fill_copy
    /\ last.op \in {"reset_copy", "reset_to_marker_copy"}
           => marker(stack) = last.before.fill

\* A successful allocation of a droppable type while the copy chunk holds
\* something.
C10_Witness ==
    /\ IsDropAlloc
    /\ last.result = "Ok"
    /\ marker(stack) > last.before.fill
    /\ marker_copy(stack) > 0

HasDone(rs) == \E i \in 1..Len(rs) : rs[i].state = "done"

\* C11: reset_copy() and reset_to_marker_copy(m) invoke no destructor; the
\* only thing they change is the fill of the copy chunk, which becomes 0,
\* resp. m: the drop chunk, its words and the live objects are as before.
C11_CopyResetsOnlySetCopyFill ==
    last.op \in {"reset_copy", "reset_to_marker_copy"} =>
        /\ last.walk.visited = <<>>
        /\ last.walk.drops = <<>>
        /\ recs = last.before.recs
        /\ stack = [last.before.stack EXCEPT
                       !.storage_copy.fill =
                           IF last.op = "reset_copy" THEN 0 ELSE last.m]

\* A rollback of the copy chunk to a marker above 0 and below its fill, while
\* an initialized object lives in the drop chunk.
C11_Witness ==
    /\ last.op = "reset_to_marker_copy"
    /\ 0 < last.m
    /\ last.m < last.before.fill_copy
    /\ HasDone(recs)
    /\ marker(stack) # last.m

\* C12: reset() and reset_to_marker(0) are equivalent from every reachable
\* state: the same destructors are called in the same order and the allocator
\* is left in the same state, for the reset calls that were made, for the
\* reset_to_marker(0) calls that were made and for the calls that could be.
C12_ResetEqualsResetToMarkerZero ==
    /\ last.op = "reset" =>
           LET r == reset_to_marker(last.before.stack, 0)
           IN  r.walk = last.walk /\ r.sa = stack
    /\ (last.op = "reset_to_marker" /\ last.m = 0) =>
           LET r == reset(last.before.stack)
           IN  r.walk = last.walk /\ r.sa = stack
    /\ reset(stack) = reset_to_marker(stack, 0)

\* A reset() that called two destructors.
C12_Witness ==
    /\ last.op = "reset"
    /\ Len(last.walk.drops) >= 2

\* C13: a reset() of an allocator whose drop chunk is empty (a second
\* consecutive reset() among them) and a reset_to_marker(marker()) call no
\* destructor and leave both fills as they were.
C13_ResetIdempotent ==
    /\ (last.op = "reset" /\ last.before.fill = 0) =>
           /\ last.walk.drops = <<>>
           /\ marker(stack) = last.before.fill
           /\ marker_copy(stack) = last.before.fill_copy
    /\ (last.op = "reset_to_marker" /\ last.m = last.before.fill) =>
           /\ last.walk.drops = <<>>
           /\ marker(stack) = last.before.fill
           /\ marker_copy(stack) = last.before.fill_copy
    /\ LET first  == reset(stack)
           second == reset(first.sa)
       IN  second.walk.drops = <<>> /\ second.sa = first.sa
    /\ LET r == reset_to_marker(stack, marker(stack))
       IN  r.walk.drops = <<>> /\ r.sa = stack

\* A reset_to_marker(marker()) on a drop chunk that holds an initialized
\* object.
C13_Witness ==
    /\ last.op = "reset_to_marker"
    /\ last.m = last.before.fill
    /\ last.m > 0
    /\ HasDone(recs)

\* The number of calls of a destructor that a walk made on the object of record r.
DropCalls(walk, r) ==
    Cardinality({j \in DOMAIN walk.drops :
        /\ walk.drops[j].at = r.start
        /\ walk.drops[j].type_description = r.type_description})

\* C14: over the life of a StackAllocator every droppable object whose
\* allocation succeeded gets its destructor called exactly once.  An object
\* leaves the allocator only in a walk (reset, reset_to_marker, drop of the
\* allocator); that walk calls its destructor once and calls no destructor of
\* an object that stays or that is not there; no other operation calls a
\* destructor or loses an object; once the allocator is dropped no object is
\* left.
C14_EveryObjectDroppedExactlyOnce ==
    LET was == last.before.recs
    IN  /\ Len(recs) >= Len(was) \/ IsWalk
        /\ \A i \in DOMAIN was :
               i <= Len(recs) =>
                   /\ recs[i].type_description_start = was[i].type_description_start
                   /\ recs[i].start = was[i].start
                   /\ recs[i].state = "done" \/ was[i].state # "done"
        /\ \A i \in DOMAIN was :
               DropCalls(last.walk, was[i]) =
                   IF i > Len(recs) /\ was[i].state = "done" THEN 1 ELSE 0
        /\ \A j \in DOMAIN last.walk.drops :
               \E i \in DOMAIN was : last.walk.drops[j].at = was[i].start
        /\ ~IsWalk => last.walk.drops = <<>>
        /\ ~alive => recs = <<>>

\* The allocator is dropped while two objects, each allocated with no abort,
\* are alive in it.
C14_Witness ==
    /\ last.op = "drop"
    /\ ~alive
    /\ Len(last.walk.drops) >= 2
    /\ \A i \in DOMAIN last.before.recs : last.before.recs[i].state = "done"

\* C15: an allocation of a type of size s and alignment a into a copy chunk
\* whose fill is 0 leaves its fill <= a + s; an allocation of a droppable type
\* into a drop chunk whose fill is 0 leaves its fill <= w + a + s + alpha, with
\* w and alpha the size and the alignment of the packed word.
C15_FreshChunkConsumption ==
    (last.op \in {"alloc", "alloc_unchecked"} /\ last.result = "Ok") =>
        LET T == TypeOf(last.ty)
        IN  IF T.needs_drop
            THEN last.before.fill = 0 =>
                     marker(stack) <= WordSize + T.align + T.size + WordAlign
            ELSE last.before.fill_copy = 0 =>
                     marker_copy(stack) <= T.align + T.size

\* A droppable allocation into an empty drop chunk that consumes exactly
\* w + a + s + alpha bytes.
C15_Witness ==
    /\ IsDropAlloc
    /\ last.result = "Ok"
    /\ last.before.fill = 0
    /\ marker(stack) = WordSize + TypeOf(last.ty).align + TypeOf(last.ty).size + WordAlign

\* C16 as stated (scenario D): in a fresh copy chunk with room, a u8 leaves
\* marker_copy() = 1, then a u32 leaves marker_copy() = 8, then a u64 leaves
\* marker_copy() = 16 or 24.
C16_ScenarioD ==
    (IsCopyAlloc /\ last.result = "Ok") =>
        /\ (last.ty = "u8" /\ last.before.fill_copy = 0) => marker_copy(stack) = 1
        /\ (last.ty = "u32" /\ last.before.fill_copy = 1) => marker_copy(stack) = 8
        /\ (last.ty = "u64" /\ last.before.fill_copy = 8) => marker_copy(stack) \in {16, 24}

\* C17: a successful allocation of a Copy type of size s and alignment a in a
\* chunk whose fill is f places the object at f + (a - (f mod a)) and leaves the
\* fill at f + (a - (f mod a)) + s: from a fresh chunk a u8 leaves the marker at
\* 2, then a u32 at 8, then a u64 at 24; a u64 alone leaves it at 16.
C17_CopyAllocationOffsets ==
    LET l == copy_stack.last
        T == TypeOf(l.ty)
        f == l.before
        m == StackAllocatorCopy_marker(copy_stack.sac)
    IN  (l.op = "alloc" /\ l.result = "Ok") =>
            /\ l.at = f + (T.align - (f % T.align))
            /\ m = f + (T.align - (f % T.align)) + T.size
            /\ (l.ty = "u8" /\ f = 0) => m = 2
            /\ (l.ty = "u32" /\ f = 2) => m = 8
            /\ (l.ty = "u64" /\ f = 8) => m = 24
            /\ (l.ty = "u64" /\ f = 0) => m = 16

\* The u64 of the sequence: allocated at fill 8, it leaves the marker at 24,
\* and the caller holds the markers 2 and 8 of the u8 and of the u32.
C17_Witness ==
    /\ copy_stack.last.op = "alloc"
    /\ copy_stack.last.result = "Ok"
    /\ copy_stack.last.ty = "u64"
    /\ copy_stack.last.before = 8
    /\ StackAllocatorCopy_marker(copy_stack.sac) = 24
    /\ {2, 8} \subseteq copy_stack.markers

\* C18: where the checked allocation would succeed, alloc_unchecked and
\* alloc_mut_unchecked return the same offset, write the same packed word and
\* leave the same fills as alloc and alloc_mut would from the same state.
C18_UncheckedSameAsChecked ==
    last.op = "alloc_unchecked" =>
        LET T == TypeOf(last.ty)
            before == last.before.stack
        IN  IF T.needs_drop
            THEN LET c == alloc_non_copy_reserve(before, T)
                 IN  c.ok =>
                         /\ last.at = c.start
                         /\ last.end = c.end
                         /\ stack = IF last.result = "Ok"
                                    THEN alloc_non_copy_complete(
                                             c.sa, c.type_description_start, T)
                                    ELSE c.sa
            ELSE LET c == alloc_copy_inner(before, T.size, T.align)
                 IN  c.ok =>
                         /\ last.at = c.start
                         /\ last.end = c.end
                         /\ stack = c.sa

\* An unchecked allocation of a droppable type, above another record, in a
\* state where the checked one would have succeeded.
C18_Witness ==
    /\ last.op = "alloc_unchecked"
    /\ last.result = "Ok"
    /\ TypeOf(last.ty).needs_drop
    /\ last.before.fill > 0
    /\ alloc_non_copy_reserve(last.before.stack, TypeOf(last.ty)).ok

C20_DropFillWordAligned ==
    /\ marker(stack) % WordAlign = 0
    /\ \A i \in DOMAIN recs : recs[i].type_description_start % WordAlign = 0
    /\ \A i \in DOMAIN recs : recs[i].end % WordAlign = 0
    /\ \A m \in markers : m % WordAlign = 0

\* A record that starts above a record whose object ends at an offset that is
\* not a multiple of the alignment of the packed word.
C20_Witness ==
    /\ Len(recs) = 2
    /\ recs[1].state = "done"
    /\ (recs[1].start + TypeDescription(recs[1].type_description).size) % WordAlign # 0
    /\ recs[2].type_description_start = marker(last.before.stack)
    /\ recs[2].type_description_start > 0

C22_NeverOutOfPool ==
    /\ last.result # "OutOfPoolError"
    /\ copy_stack.last.result # "OutOfPoolError"

\* C23: for every pointer p whose low bit is 0 and every flag b,
\* un_bitpack(bitpack(p, b)) = (p, b), and packing what was unpacked gives the
\* packed word again.
C23_BitpackRoundTrip ==
    (call.fn = "bitpack" /\ call.p % 2 = 0) =>
        /\ call.step >= 2 =>
               call.unpacked = [type_description |-> call.p, is_done |-> call.is_done]
        /\ call.step >= 3 => call.repacked = call.packed

\* A pointer above 0 packed with the flag set, unpacked and packed again.
C23_Witness ==
    /\ call.fn = "bitpack"
    /\ call.step = 3
    /\ call.p % 2 = 0
    /\ call.p > 0
    /\ call.is_done
    /\ call.packed # call.p

DoneOf(rs) == SelectSeq(rs, LAMBDA r : r.state = "done")

\* The calls of drop_glue of a walk are those of the records rs, in their order.
DropsAre(walk, rs) ==
    /\ Len(walk.drops) = Len(rs)
    /\ \A i \in DOMAIN rs :
           /\ walk.drops[i].at = rs[i].start
           /\ walk.drops[i].type_description = rs[i].type_description

\* C24: every alloc, marker, reset and reset_to_marker of a
\* DoubleBufferedAllocator acts on the active buffer only: the chunks, the fills
\* and the records of the inactive buffer are unchanged, the selector is
\* unchanged, and the walk of a reset calls the destructors of the initialized
\* objects of the active buffer and of nothing else.
C24_InactiveBufferUntouched ==
    [][ LET a == active_index(buffered.dba.current)
            o == 3 - a
            l == buffered'.last
        IN  l.op \notin {"none", "swap_buffers"} =>
                /\ buffered'.dba.current = buffered.dba.current
                /\ buffered'.dba.buffers[o] = buffered.dba.buffers[o]
                /\ buffered'.recs[o] = buffered.recs[o]
                /\ buffered'.markers[o] = buffered.markers[o]
                /\ buffered'.markers_copy[o] = buffered.markers_copy[o]
                /\ l.op = "reset" =>
                       /\ DropsAre(l.walk, DoneOf(buffered.recs[a]))
                       /\ buffered'.recs[a] = <<>>
                /\ l.op = "reset_to_marker" =>
                       DropsAre(l.walk,
                           DoneOf(SelectSeq(buffered.recs[a],
                               LAMBDA r : r.type_description_start >= l.m)))
                /\ l.op \notin {"reset", "reset_to_marker"} => l.walk.drops = <<>>
      ]_vars

\* After alloc V1, swap_buffers(), alloc V2: the reset() has dropped V2 only and
\* V1 is live in the inactive buffer.
C24_Witness ==
    /\ buffered.last.op = "reset"
    /\ buffered.dba.current
    /\ Len(buffered.last.walk.drops) = 1
    /\ buffered.recs[2] = <<>>
    /\ Len(buffered.recs[1]) = 1
    /\ buffered.recs[1][1].state = "done"
    /\ marker(buffered.dba.buffers[1]) > 0

\* C25: swap_buffers() flips the selector and nothing else: no destructor is
\* called, the chunks, fills and records of both buffers are as before, and a
\* second swap gives the selector its first value back; a new allocator has
\* buffers[0] active, and an allocation made while the selector is set lands
\* in buffers[1].
C25_SwapOnlyFlipsSelector ==
    [][ LET l == buffered'.last
        IN  /\ l.op = "swap_buffers" =>
                   /\ buffered'.dba.current = ~buffered.dba.current
                   /\ buffered'.dba.buffers = buffered.dba.buffers
                   /\ buffered'.recs = buffered.recs
                   /\ buffered'.markers = buffered.markers
                   /\ buffered'.markers_copy = buffered.markers_copy
                   /\ l.walk.drops = <<>>
                   /\ swap_buffers(buffered'.dba) = buffered.dba
            /\ buffered.last.op = "with_capacity" =>
                   /\ ~buffered.dba.current
                   /\ active_buffer(buffered.dba) = buffered.dba.buffers[1]
            /\ (l.op = "alloc" /\ l.result = "Ok" /\ buffered.dba.current) =>
                   /\ buffered'.dba.buffers[2] # buffered.dba.buffers[2]
                   /\ buffered'.dba.buffers[1] = buffered.dba.buffers[1]
      ]_vars

\* A swap that gives the selector its first value back while each buffer
\* holds a live object.
C25_Witness ==
    /\ buffered.last.op = "swap_buffers"
    /\ ~buffered.dba.current
    /\ DoneOf(buffered.recs[1]) # <<>>
    /\ DoneOf(buffered.recs[2]) # <<>>

\* C26: in the frame loop (swap_buffers(); reset(); reset_copy(); allocations)
\* a droppable object allocated during frame N is destroyed by no operation of
\* frame N or of frame N + 1, and the reset() at the start of frame N + 2
\* destroys it: the objects that reset walks over are those allocated two
\* swaps before, all the initialized ones are dropped, and the objects of the
\* other buffer, allocated one swap before, stay.
C26_DestroyedTwoFramesLater ==
    [][ LET a == active_index(buffered.dba.current)
            o == 3 - a
            l == buffered'.last
            before == buffered.recs
            after == buffered'.recs
        IN  /\ l.op = "reset" =>
                   /\ \A i \in DOMAIN before[a] : before[a][i].age = 2
                   /\ DropsAre(l.walk, DoneOf(before[a]))
                   /\ after[a] = <<>>
                   /\ after[o] = before[o]
                   /\ \A i \in DOMAIN before[o] : before[o][i].age = 1
            /\ l.op \notin {"reset", "none"} =>
                   /\ l.walk.drops = <<>>
                   /\ Len(after[1]) >= Len(before[1])
                   /\ Len(after[2]) >= Len(before[2])
            /\ \A k \in {1, 2} : \A i \in DOMAIN after[k] :
                   /\ after[k][i].age <= 2
                   /\ after[k][i].age = 2 =>
                          /\ buffered'.phase = "swapped"
                          /\ k = active_index(buffered'.dba.current)
      ]_vars

\* The reset() at the start of a frame has destroyed an object while the
\* object of the frame before is live in the other buffer.
C26_Witness ==
    /\ buffered.phase = "reset"
    /\ buffered.last.op = "reset"
    /\ Len(buffered.last.walk.drops) >= 1
    /\ \E i \in DOMAIN buffered.recs[3 - active_index(buffered.dba.current)] :
           LET r == buffered.recs[3 - active_index(buffered.dba.current)][i]
           IN  r.state = "done" /\ r.age = 1

\* C27: the resident side and the temporary side of a
\* DoubleEndedStackAllocator are independent: an allocation, a reset or a
\* rollback on one side leaves the StackAllocator of the other side, so both
\* of its markers, and its objects as they were, and the walk of a reset calls
\* the destructors of initialized objects of its own side only.
C27_SidesIndependent ==
    [][ LET l == ended'.last
            s == l.side
            o == OtherSide(s)
        IN  l.op \notin {"none", "with_capacity"} =>
                /\ stack_of(ended'.dea, o) = stack_of(ended.dea, o)
                /\ marker(stack_of(ended'.dea, o)) = marker(stack_of(ended.dea, o))
                /\ marker_copy(stack_of(ended'.dea, o)) = marker_copy(stack_of(ended.dea, o))
                /\ ended'.recs[o] = ended.recs[o]
                /\ l.op = "reset" =>
                       /\ DropsAre(l.walk, DoneOf(ended.recs[s]))
                       /\ ended'.recs[s] = <<>>
                /\ l.op = "reset_to_marker" =>
                       DropsAre(l.walk,
                           DoneOf(SelectSeq(ended.recs[s],
                               LAMBDA r : r.type_description_start >= l.m)))
                /\ l.op \notin {"reset", "reset_to_marker"} => l.walk.drops = <<>>
                /\ (l.op = "reset" /\ s = "temp") =>
                       marker_resident(ended'.dea) = marker_resident(ended.dea)
                /\ (l.op = "reset" /\ s = "resident") =>
                       marker_temp(ended'.dea) = marker_temp(ended.dea)
      ]_vars

\* reset_temp() has dropped the object of the temporary side while an object
\* is live on the resident side.
C27_Witness ==
    /\ ended.last.op = "reset"
    /\ ended.last.side = "temp"
    /\ Len(ended.last.walk.drops) = 1
    /\ marker_temp(ended.dea) = 0
    /\ marker_resident(ended.dea) > 0
    /\ DoneOf(ended.recs["resident"]) # <<>>

\* C28: a new pool has first_available == Some(0); a successful alloc_unique
\* takes the item at first_available and leaves first_available at the next
\* link that item had (None after the last free item); the drop of a UniquePtr
\* calls the destructor of its object once, sets the fill of its item to 0 and
\* makes the item the first available one, linked to the previous head.
C28_FreeListOfUniquePtr ==
    [][ LET l == pool'.last
            before == pool.pa
            after == pool'.pa
        IN  /\ pool.last.op = "new" => first_available(before) = Some(0)
            /\ (l.op \in {"alloc_unique", "clone_unique"} /\ l.result = "Ok") =>
                   /\ first_available(before) = Some(l.item)
                   /\ first_available(after) = before.storage[l.item].next
                   /\ before.storage[l.item].next = None => first_available(after) = None
                   /\ \E u \in pool'.uniques \ pool.uniques : u.chunk_index = l.item
            /\ l.op = "drop_unique" =>
                   /\ \E u \in pool.uniques \ pool'.uniques :
                          /\ u.chunk_index = l.item
                          /\ l.walk.drops =
                                 << [at |-> u.ptr,
                                     type_description |-> get_type_description(Monster)] >>
                   /\ after.storage[l.item].storage.fill = 0
                   /\ first_available(after) = Some(l.item)
                   /\ after.storage[l.item].next = first_available(before)
      ]_vars

\* With both items taken by alloc_unique (first_available went from Some(0) to
\* Some(1) to None), the UniquePtr of item 0 was dropped: item 0 is the head
\* and its link is None, the head before the drop.
C28_Witness ==
    /\ pool.last.op = "drop_unique"
    /\ pool.last.item = 0
    /\ Len(pool.last.walk.drops) = 1
    /\ first_available(pool.pa) = Some(0)
    /\ pool.pa.storage[0].next = None
    /\ \E u \in pool.uniques : u.chunk_index = 1

\* Whether an object of type U fits in an empty item of the capacity.
Fits(U, item_capacity) ==
    ~out_of_memory(non_copy_layout(0, U.size, U.align).end, item_capacity)

PoolTypeOf(name) == IF name = Monster.name THEN Monster ELSE SharedUniqueMonster

\* C29 as stated: with first_available == None, alloc_unique and alloc_shared
\* return OutOfPoolError, do not run the initializer and leave the pool as it
\* was; after the drop of an owning pointer in such a pool, the next
\* allocation (whose initializer returns) succeeds.
C29_OutOfPoolThenRefill ==
    [][ LET l == pool'.last
        IN  l.op \in {"alloc_unique", "alloc_shared"} =>
                /\ first_available(pool.pa) = None =>
                       /\ l.result = "OutOfPoolError"
                       /\ ~l.ran
                       /\ pool'.pa = pool.pa
                       /\ pool'.uniques = pool.uniques
                       /\ pool'.shareds = pool.shareds
                /\ (l.refill /\ l.result # "Panic") => l.result = "Ok"
      ]_vars

\* C29, amended: the same, the allocation after the drop succeeding when its
\* object fits in one item (it takes the item that was given back); when it
\* does not fit it returns OutOfMemoryError.
C29_OutOfPoolThenRefillIfFits ==
    [][ LET l == pool'.last
            U == PoolTypeOf(l.ty)
        IN  l.op \in {"alloc_unique", "alloc_shared"} =>
                /\ first_available(pool.pa) = None =>
                       /\ l.result = "OutOfPoolError"
                       /\ ~l.ran
                       /\ pool'.pa = pool.pa
                       /\ pool'.uniques = pool.uniques
                       /\ pool'.shareds = pool.shareds
                /\ (l.refill /\ l.result # "Panic") =>
                       IF Fits(U, pool.pa.storage[pool.last.item].storage.cap)
                       THEN l.result = "Ok" /\ l.item = pool.last.item
                       ELSE l.result = "OutOfMemoryError"
      ]_vars

\* Both items were owned, one owning pointer was dropped, and the allocation
\* that followed succeeded in the item given back.
C29_Witness ==
    /\ pool.last.op \in {"alloc_unique", "alloc_shared"}
    /\ pool.last.refill
    /\ pool.last.result = "Ok"
    /\ first_available(pool.pa) = None

\* C30: for every item that holds a value allocated with alloc_shared,
\* strong_count is the number of live SharedPtr to it and weak_count the
\* number of live WeakPtr made from it, and the item is not on the way back
\* to the free list (its fill is not 0) while a SharedPtr to it is live.
C30_CountsAreHandles ==
    \A i \in Items :
        pool.shareds[i] >= 1 =>
            /\ strong_count(pool.pa, i) = pool.shareds[i]
            /\ weak_count(pool.pa, i) = pool.weaks[i]
            /\ pool.pa.storage[i].storage.fill # 0
            /\ first_available(pool.pa) # Some(i)

\* The records of the drop chunk before the last operation whose packed word
\* lies at or above m, in the order of their allocation.
RecordsFrom(m) ==
    SelectSeq(last.before.recs, LAMBDA r : r.type_description_start >= m)

\* C31: after successful droppable allocations of types of every size and
\* alignment and rollbacks to markers the allocator returned, the walk of
\* reset, reset_to_marker and of the drop of the allocator visits exactly the
\* offsets at which the allocations wrote their packed words, computes for
\* each record the object offset the allocation returned, reads no word at or
\* above fill, reads no word that was not written, and stops with its index
\* equal to fill.
C31_WalkFollowsAllocations ==
    IsWalk =>
        LET rs == RecordsFrom(WalkStart)
            walk == last.walk
        IN  /\ ~walk.uninit_read
            /\ Len(walk.visited) = Len(rs)
            /\ \A i \in DOMAIN rs :
                   /\ walk.visited[i] = rs[i].type_description_start
                   /\ walk.visited[i] < last.before.fill
            /\ DropsAre(walk, rs)
            /\ walk.stop = last.before.fill

\* A walk over two records of types of different alignments, the second of
\* them with an alignment above that of a packed word.
C31_Witness ==
    /\ IsWalk
    /\ Len(last.walk.drops) = 2
    /\ TypeDescription(last.walk.drops[1].type_description).alignment
           # TypeDescription(last.walk.drops[2].type_description).alignment
    /\ TypeDescription(last.walk.drops[2].type_description).alignment > WordAlign

\* The packed word and the object of every record that no rollback has passed
\* lie inside the record, the records follow each other and end at or below the
\* fill of the drop chunk.
RecordsDisjoint ==
    \A i \in DOMAIN recs :
        /\ recs[i].type_description_start + WordSize <= recs[i].start
        /\ recs[i].start + TypeDescription(recs[i].type_description).size
               <= recs[i].end
        /\ recs[i].end <= marker(stack)
        /\ \A j \in DOMAIN recs :
               i < j => recs[i].end <= recs[j].type_description_start

\* C32: the byte ranges (packed word and object) of the allocations that no
\* rollback has passed are pairwise disjoint and inside [0, fill) of their
\* chunk: every allocation writes at or above the fill it found and ends at or
\* below the fill it leaves, and an allocation that follows a rollback to a
\* marker m writes nothing below m.
C32_AllocationsDisjoint ==
    [][ /\ RecordsDisjoint'
        /\ (pending = <<>> /\ pending' # <<>>) =>
               LET p == pending'[1]
                   first == IF p.T.needs_drop THEN p.type_description_start
                                              ELSE p.start
               IN  /\ p.start + p.T.size <= p.end
                   /\ first <= p.start
                   /\ IF p.T.needs_drop
                      THEN /\ first >= marker(stack)
                           /\ p.end <= marker(stack')
                           /\ last.op = "reset_to_marker" => first >= last.m
                      ELSE /\ first >= marker_copy(stack)
                           /\ p.end <= marker_copy(stack')
                           /\ last.op = "reset_to_marker_copy" => first >= last.m
      ]_vars

\* An allocation in a drop chunk that was rolled back to a marker above 0: a
\* word of a record the rollback passed is still above the fill it found.
C32_Witness ==
    /\ IsAlloc
    /\ last.result = "Ok"
    /\ Len(recs) = 2
    /\ last.before.fill > 0
    /\ \E o \in DOMAIN last.before.stack.storage.words : o > last.before.fill

\* C34: every successful allocation strictly increases the fill of the chunk it
\* targets: marker() (marker_copy() for a type that needs no drop) after the
\* allocation has returned Ok is strictly greater than before the call, for
\* every type, the one-byte and the zero-size types included.
C34_AllocationRaisesFill ==
    [][ (pending # <<>> /\ pending' = <<>> /\ last'.result = "Ok") =>
            LET p == pending[1]
            IN  IF p.T.needs_drop
                THEN marker(stack') > p.before.fill
                ELSE marker_copy(stack') > p.before.fill_copy
      ]_vars

\* A successful allocation of a zero-size type in the copy chunk.
C34_Witness ==
    /\ IsAlloc
    /\ last.result = "Ok"
    /\ last.end = last.at
    /\ marker_copy(stack) = last.end
    /\ capacity_copy(stack) > 0

\* C33: a checked allocation that returns OutOfMemoryError leaves the allocator
\* unchanged: both chunks (fills and packed words) are what they were, no closure
\* is started, no record is made and no destructor is called, so an allocation
\* that fitted before it still fits.
C33_OutOfMemoryChangesNothing ==
    [][ (last'.op = "alloc" /\ last'.result = "OutOfMemoryError") =>
            /\ stack' = stack
            /\ pending' = pending
            /\ recs' = recs
            /\ alive' = alive
            /\ last'.walk.drops = <<>>
            /\ last'.walk.visited = <<>>
            /\ \A T \in DropTypes :
                   alloc_non_copy_reserve(stack', T).ok
                       = alloc_non_copy_reserve(stack, T).ok
            /\ \A T \in CopyTypes :
                   alloc_copy_inner(stack', T.size, T.align).ok
                       = alloc_copy_inner(stack, T.size, T.align).ok
      ]_vars

\* An allocation in a drop chunk with records returned OutOfMemoryError and a
\* smaller droppable type still fits.
C33_Witness ==
    /\ IsDropAlloc
    /\ last.result = "OutOfMemoryError"
    /\ recs # <<>>
    /\ \E T \in DropTypes : alloc_non_copy_reserve(stack, T).ok

HasAborted(rs) == \E i \in 1..Len(rs) : rs[i].state = "aborted"

\* C35: after an initializer abort the allocator remains usable.  While the
\* slot of an aborted allocation is in the drop chunk, the records (the aborted
\* one included) are pairwise disjoint and below the fill, so no later
\* allocation overlaps a live object; an allocation in the copy chunk is placed
\* at or above the fill it found, which an aborted allocation has left at its
\* end; and a walk over an aborted slot reads the word of every record from its
\* start, the aborted one included, reads no unwritten word, stops at the fill
\* and calls the destructors of exactly the initialized records.
C35_UsableAfterAbort ==
    /\ HasAborted(recs) => RecordsDisjoint
    /\ (IsCopyAlloc /\ last.result \in {"InClosure", "Ok", "Panic"}) =>
           /\ last.at >= last.before.fill_copy
           /\ last.end <= marker_copy(stack)
    /\ (IsWalk /\ HasAborted(RecordsFrom(WalkStart))) =>
           LET rs == RecordsFrom(WalkStart)
               walk == last.walk
           IN  /\ ~walk.uninit_read
               /\ Len(walk.visited) = Len(rs)
               /\ \A i \in DOMAIN rs :
                      walk.visited[i] = rs[i].type_description_start
               /\ walk.stop = last.before.fill
               /\ DropsAre(walk, DoneOf(rs))

\* A walk over the slot of an aborted allocation and over an object that was
\* allocated after the abort.
C35_Witness ==
    /\ IsWalk
    /\ last.walk.drops # <<>>
    /\ \E i, j \in DOMAIN last.before.recs :
           /\ i < j
           /\ last.before.recs[i].type_description_start >= WalkStart
           /\ last.before.recs[i].state = "aborted"
           /\ last.before.recs[j].state = "done"

\* Every walk calls the destructors of the records it starts at or below whose
\* closure has returned, in their order, and of nothing else.
WalkDropsInitialized ==
    IsWalk => /\ ~last.walk.uninit_read
              /\ DropsAre(last.walk, DoneOf(RecordsFrom(WalkStart)))

\* C36: when the closure of an allocation allocates in the same StackAllocator,
\* the inner allocation is placed at or after the end offset reserved for the
\* outer one when both go to the same chunk, the records never overlap, and a
\* later walk calls the destructor of each record whose closure returned exactly
\* once: of both, or of the inner one alone when the outer closure then panics.
C36_NestedAllocation ==
    [][ /\ (pending # <<>> /\ Len(pending') = Len(pending) + 1) =>
               LET outer == pending[Len(pending)]
                   inner == pending'[Len(pending')]
               IN  outer.T.needs_drop = inner.T.needs_drop =>
                       /\ outer.start + outer.T.size <= outer.end
                       /\ IF inner.T.needs_drop
                          THEN inner.type_description_start >= outer.end
                          ELSE inner.start >= outer.end
        /\ RecordsDisjoint'
        /\ WalkDropsInitialized'
      ]_vars

\* A walk over an outer record whose closure panicked after the closure had
\* allocated an inner object: the walk drops the inner object.
C36_Witness ==
    /\ IsWalk
    /\ \E i, j \in DOMAIN last.before.recs :
           /\ j = i + 1
           /\ last.before.recs[i].type_description_start >= WalkStart
           /\ last.before.recs[i].depth = 0
           /\ last.before.recs[i].state = "aborted"
           /\ last.before.recs[j].depth = 1
           /\ last.before.recs[j].state = "done"
           /\ DropCalls(last.walk, last.before.recs[j]) = 1

\* C37: no destructor is invoked more than once over the life of the
\* allocator, even when a destructor panics in the middle of the walk of reset
\* or reset_to_marker: no walk, the one of the drop of the allocator included,
\* calls the destructor of an object that an earlier walk has called it for.
C37_NoDestructorTwice ==
    IsWalk =>
        \A j \in DOMAIN last.walk.drops : \A i \in DOMAIN last.before.recs :
            last.before.recs[i].start = last.walk.drops[j].at
                => last.before.recs[i].state # "dropped"

\* The items reachable from first_available through the next links.
RECURSIVE FreeFrom(_, _, _)
FreeFrom(pa, link, seen) ==
    IF link = None \/ link[1] \in seen THEN seen
    ELSE FreeFrom(pa, pa.storage[link[1]].next, seen \cup {link[1]})

FreeItems(pa) == FreeFrom(pa, first_available(pa), {})

\* The items owned by a live UniquePtr or SharedPtr.
OwnedItems ==
    {u.chunk_index : u \in pool.uniques} \cup {i \in Items : pool.shareds[i] >= 1}

\* The items of the free list and the items owned by live pointers are all
\* the items of the pool.
ItemsConserved ==
    Cardinality(FreeItems(pool.pa)) + Cardinality(OwnedItems) = NbItem

\* C38: in a PoolAllocator with n items the number of items reachable from
\* first_available through the next links plus the number of items owned by
\* live pointers is n, and an allocation that fails with OutOfPoolError or with
\* OutOfMemoryError keeps it so: it removes no item from the free list.
C38_ItemsConserved ==
    [][ (/\ ItemsConserved
         /\ pool'.last.op \in {"alloc_unique", "alloc_shared"}
         /\ pool'.last.result \in {"OutOfPoolError", "OutOfMemoryError"}) =>
            /\ FreeItems(pool'.pa) = FreeItems(pool.pa)
            /\ ItemsConserved'
      ]_vars

\* C39: DoubleEndedStackAllocator::with_capacity(c, cc) gives each of the
\* resident and temp sides a drop chunk of floor(c / 2) bytes and a copy chunk
\* of floor(cc / 2) bytes, so the two sides together never get more than the
\* requested capacities; the capacities stay what they are.
C39_SidesGetHalf ==
    call.fn = "with_capacity" =>
        /\ \A side \in Sides :
               LET half == capacity(stack_of(ended.dea, side))
                   half_copy == capacity_copy(stack_of(ended.dea, side))
               IN  /\ 2 * half <= call.capacity
                   /\ call.capacity < 2 * half + 2
                   /\ 2 * half_copy <= call.capacity_copy
                   /\ call.capacity_copy < 2 * half_copy + 2
        /\ capacity(stack_resident(ended.dea)) + capacity(stack_temp(ended.dea))
               <= call.capacity
        /\ capacity_copy(stack_resident(ended.dea))
               + capacity_copy(stack_temp(ended.dea)) <= call.capacity_copy

\* An allocator built with odd capacities, in whose temp side an object has been
\* allocated.
C39_Witness ==
    /\ call.fn = "with_capacity"
    /\ call.capacity % 2 = 1
    /\ call.capacity_copy % 2 = 1
    /\ ended.last.op = "alloc"
    /\ ended.last.side = "temp"
    /\ ended.last.result = "Ok"

\* The operations of a DoubleEndedMemoryChunk that walk a half.
WalkedPositions ==
    IF ended_chunk.last.op = "destroy_all" THEN ChunkStartPosition
    ELSE IF ended_chunk.last.op = "reset" THEN {ended_chunk.last.position}
    ELSE {}

\* C40: in a DoubleEndedMemoryChunk, the walk of destroy_end / destroy_all over
\* a half in which nothing has been allocated reads no packed word and calls no
\* destructor, and a walk over the Middle half reads only offsets inside the
\* records allocated in the Middle half.
C40_EmptyHalfNotRead ==
    \A position \in WalkedPositions :
        LET walk == ended_chunk.last.walks[position]
            rs == ended_chunk.last.recs[position]
        IN  /\ rs = <<>> => (walk.reads = <<>> /\ walk.drops = <<>>)
            /\ position = "Middle" =>
                   \A k \in DOMAIN walk.reads : \E i \in DOMAIN rs :
                       /\ rs[i].type_description_start <= walk.reads[k]
                       /\ walk.reads[k] < rs[i].end

====
